---- MODULE Spec2Model ----
(***************************************************************************)
(* Model of the odds-dashboard frontend core.                              *)
(*                                                                         *)
(*   - OddsWebSocketClient (lib/websocket/client.ts): one transport at a   *)
(*     time, reconnect with exponential backoff, heartbeat interval.       *)
(*   - the browser objects the client drives: WebSocket instances with     *)
(*     their readyState, setTimeout / setInterval tables.                  *)
(*   - the root layout's handleStateChange writing connectionState.state.  *)
(*                                                                         *)
(*   - the odds store (lib/stores/odds.ts): oddsData and the operations    *)
(*     applySnapshot, applyUpdate, clearOdds, setLoading.                  *)
(*                                                                         *)
(* The client and the browser tables are packed into one record (World),   *)
(* the store and the JavaScript heap into another (Store), so that the     *)
(* functions of the source compose sequentially as operators.              *)
(*                                                                         *)
(* Spec      the connection client driven by its owner and the browser     *)
(* LiveSpec  the connection lifecycle with fair reconnect timeouts         *)
(* StoreSpec the odds store driven by snapshot and update messages         *)
(***************************************************************************)
EXTENDS Integers, Sequences, FiniteSets, TLC

\* ------------------------------------------------------------------ bounds
MaxTransports == 2   \* WebSocket objects that exist at the same time
MaxTimers     == 2   \* reconnect timeouts pending at the same time
MaxFailures   == 6   \* unclean closes counted between two successful opens
MaxIntervals  == 1   \* heartbeat intervals armed at the same time
MaxWire       == 1   \* messages recorded on the current transport
MaxOps        == 2   \* store operations in one behaviour of StoreSpec
MaxReplays    == 1   \* repeated applySnapshot calls with a message object already applied
MaxPending    == 2   \* REST requests of one kind without a response yet
MaxDrops      == 2   \* unclean closes in a row under the page
MaxRowKeys    == 4   \* outcome keys of a sportsbook in a projected snapshot
MaxBooks      == 3   \* sportsbooks in a projected snapshot
MaxCells      == 1   \* OddsCell instances of the grid
MaxTime       == 4   \* clock ticks of 1000 ms in one behaviour of CellSpec

Transports == 1..MaxTransports
TimerIds   == 1..MaxTimers
IntervalIds == 1..MaxIntervals
Stale      == -1     \* a timeout handle whose callback has already run

\* ------------------------------------------------------- program constants
InitialReconnectDelay == 1000
maxReconnectDelay     == 30000
MovementMs            == 3000

\* ---------------------------------------------------------------- protocol
Sports  == {"nba"}
GameIds == {"g1", "g2"}
Markets == {"ml"}

NoMessage == [type |-> "none", sport |-> "", game_id |-> "", market |-> ""]
PingMessage == [type |-> "ping", sport |-> "", game_id |-> "", market |-> ""]
UnsubscribeMessage == [type |-> "unsubscribe", sport |-> "", game_id |-> "", market |-> ""]
SubscribeMessage(sport, gameId, market) ==
    [type |-> "subscribe", sport |-> sport, game_id |-> gameId, market |-> market]

\* ------------------------------------------------------------------- state
VARIABLES
    ws,               \* this.ws: 0 (null) or the current WebSocket
    readyState,       \* WebSocket.readyState of every transport object
    reconnectDelay,   \* this.reconnectDelay
    reconnectTimer,   \* this.reconnectTimer: 0 (null), a timeout handle, or Stale
    timers,           \* browser timeout table: handles of the pending timeouts
    pingInterval,     \* this.pingInterval: 0 (null) or the interval handle
    intervals,        \* browser interval table: handles of the armed intervals
    intentionalClose, \* this.intentionalClose
    connState,        \* connectionState.state, written by handleStateChange
    wire,             \* messages put on the current transport by ws.send
    prevReported,     \* history: the state reported before connState
    closeRequested,   \* history: the transports the client has called close() on
    failures,         \* history: unclean closes since the last open (or construction)
    everOpened,       \* history: some transport has opened
    closedByOwner,    \* history: the owner's last call of connect/disconnect was disconnect
    lastCall,         \* history: the operation performed by the last step
    oddsData,         \* the value of the oddsData store (an OddsSnapshot)
    heap,             \* the sportsbook outcome objects the snapshots refer to
    held,             \* the snapshot message object a direct caller of applySnapshot keeps
    replays,          \* history: number of applySnapshot calls repeated with that object
    lastMessage,      \* history: the server message handled by the last step
    ops,              \* history: number of store operations performed
    mounted,          \* the layout's onMount has run
    selections,       \* the value of the selections store
    lastSubscription, \* +page.svelte: let lastSubscription
    connInfo,         \* connectionState apart from state: the fields status and pong set
    sportSelector,    \* SportSelector.svelte: sports, loading, error
    gameSelector,     \* GameSelector.svelte: games, loading, error, lastSport
    marketSelector,   \* MarketSelector.svelte: markets, loading, error, lastGameId
    pending,          \* REST requests without a response yet
    requested,        \* history: the tuple the backend serves on the current transport
    lastSubscribed,   \* history: the tuple of the last subscribe message put on a transport
    dropped,          \* history: an undecodable payload has arrived on the current transport
    view,             \* OddsGrid: the odds of the snapshot projected last and rows = $oddsRows
    oddsCells,        \* OddsCell instances: status, data, movement, movementTimer
    movementTimers,   \* browser timeout table: the pending movement timeouts, with their due time
    now,              \* the clock, in ms
    changedAt,        \* history: when a cell last received changed odds that move, or -1
    lateExpiry        \* history: the cells a movement timeout has run for after their teardown

clientVars == <<ws, readyState, reconnectDelay, reconnectTimer, timers, pingInterval,
                intervals, intentionalClose, connState, wire>>
historyVars == <<prevReported, closeRequested, failures, everOpened, closedByOwner>>
storeVars == <<oddsData, heap, held, replays, lastMessage, ops>>
cellVars == <<oddsCells, movementTimers, now, changedAt, lateExpiry>>
pageVars == <<mounted, selections, lastSubscription, connInfo, sportSelector, gameSelector,
              marketSelector, pending, requested, lastSubscribed, dropped, view, cellVars>>
vars == <<clientVars, historyVars, lastCall, storeVars, pageVars>>

World ==
    [ws |-> ws, readyState |-> readyState, reconnectDelay |-> reconnectDelay,
     reconnectTimer |-> reconnectTimer, timers |-> timers, pingInterval |-> pingInterval,
     intervals |-> intervals, intentionalClose |-> intentionalClose,
     connState |-> connState, wire |-> wire, prevReported |-> prevReported,
     closeRequested |-> closeRequested, scheduled |-> 0]

Commit(w) ==
    /\ ws' = w.ws
    /\ readyState' = w.readyState
    /\ reconnectDelay' = w.reconnectDelay
    /\ reconnectTimer' = w.reconnectTimer
    /\ timers' = w.timers
    /\ pingInterval' = w.pingInterval
    /\ intervals' = w.intervals
    /\ intentionalClose' = w.intentionalClose
    /\ connState' = w.connState
    /\ wire' = w.wire
    /\ prevReported' = w.prevReported
    /\ closeRequested' = w.closeRequested

\* op: the operation of the step; t: the transport of an open or close event;
\* msg: the message of a send call; delay: the delay the step handed to
\* setTimeout, 0 if it set no timeout
Call(op, t, msg, delay) == [op |-> op, t |-> t, msg |-> msg, delay |-> delay]

Min(a, b) == IF a < b THEN a ELSE b
SetMin(S) == CHOOSE x \in S : \A y \in S : x <= y

\* ------------------------------------------------------------ browser side
\* A transport object nobody references any more and whose close event has
\* been delivered produces no further events: its slot is reused.
Release(w) ==
    IF w.ws # 0 /\ w.readyState[w.ws] = "CLOSED"
    THEN [w EXCEPT !.readyState[w.ws] = "NONE"]
    ELSE w

FreeTransports(w) == {t \in Transports : Release(w).readyState[t] = "NONE"}
FreeTimers(w) == TimerIds \ w.timers

IsOpen(w) == w.ws # 0 /\ w.readyState[w.ws] = "OPEN"
IsActive(w) == w.ws # 0 /\ w.readyState[w.ws] \in {"OPEN", "CONNECTING"}

\* new WebSocket(url): the object starts in CONNECTING
NewWebSocket(w) ==
    LET r == Release(w)
        t == SetMin(FreeTransports(w))
    IN [r EXCEPT !.ws = t, !.readyState[t] = "CONNECTING", !.wire = <<>>]

\* setTimeout(cb, delay)
SetTimeout(w, delay) ==
    LET k == SetMin(FreeTimers(w))
    IN [w EXCEPT !.timers = @ \cup {k}, !.reconnectTimer = k, !.scheduled = delay]

\* clearTimeout(handle): no effect on a handle that is not pending
ClearTimeout(w, handle) == [w EXCEPT !.timers = @ \ {handle}]

\* setInterval(cb, 30000)
SetInterval(w) ==
    LET i == SetMin(IntervalIds \ w.intervals)
    IN [w EXCEPT !.intervals = @ \cup {i}, !.pingInterval = i]

\* WebSocket.close(): CONNECTING and OPEN become CLOSING, otherwise no effect
WsClose(w, t) ==
    IF w.readyState[t] \in {"CONNECTING", "OPEN"}
    THEN [w EXCEPT !.readyState[t] = "CLOSING", !.closeRequested = @ \cup {t}]
    ELSE IF w.readyState[t] = "CLOSING"
    THEN [w EXCEPT !.closeRequested = @ \cup {t}]
    ELSE w

\* the connection of transport t is gone: readyState CLOSED, or nothing left
\* of the object when the client no longer refers to it
Closed(w, t) ==
    [w EXCEPT !.readyState[t] = IF t = w.ws THEN "CLOSED" ELSE "NONE",
              !.closeRequested = @ \ {t}]

\* --------------------------------------------------------- root layout
handleStateChange(w, state) ==
    [w EXCEPT !.prevReported = w.connState, !.connState = state]

\* ------------------------------------------------- OddsWebSocketClient
stopHeartbeat(w) ==
    IF w.pingInterval # 0
    THEN [w EXCEPT !.intervals = @ \ {w.pingInterval}, !.pingInterval = 0]
    ELSE w

startHeartbeat(w) == SetInterval(stopHeartbeat(w))

scheduleReconnect(w) ==
    LET s == SetTimeout(w, w.reconnectDelay)
    IN [s EXCEPT !.reconnectDelay = Min(w.reconnectDelay * 2, maxReconnectDelay)]

\* variant: no check of the current transport's readyState
connectUnguarded(w) ==
    NewWebSocket(handleStateChange([w EXCEPT !.intentionalClose = FALSE], "connecting"))

connect(w) ==
    IF IsActive(w)
    THEN w
    ELSE NewWebSocket(handleStateChange([w EXCEPT !.intentionalClose = FALSE], "connecting"))

onopen(w) ==
    startHeartbeat([handleStateChange(w, "connected") EXCEPT !.reconnectDelay = 1000])

\* variant: the close handler never schedules a reconnect
oncloseWithoutReconnect(w) ==
    stopHeartbeat(handleStateChange(w, "disconnected"))

onclose(w) ==
    LET s == stopHeartbeat(handleStateChange(w, "disconnected"))
    IN IF ~s.intentionalClose THEN scheduleReconnect(s) ELSE s

\* variant: no check of readyState before ws.send
sendUnchecked(w, message) ==
    [w EXCEPT !.wire = Append(@, message)]

send(w, message) ==
    IF ~IsOpen(w)
    THEN w
    ELSE [w EXCEPT !.wire = Append(@, message)]

subscribe(w, sport, gameId, market) == send(w, SubscribeMessage(sport, gameId, market))

unsubscribe(w) == send(w, UnsubscribeMessage)

disconnect(w) ==
    LET a == stopHeartbeat([w EXCEPT !.intentionalClose = TRUE])
        b == IF a.reconnectTimer # 0
             THEN [ClearTimeout(a, a.reconnectTimer) EXCEPT !.reconnectTimer = 0]
             ELSE a
    IN IF b.ws # 0
       THEN [Release(WsClose(b, b.ws)) EXCEPT !.ws = 0, !.wire = <<>>]
       ELSE b


\* ------------------------------------------------------ JavaScript values
Null == "<null>"   \* the value null of a nullable string field

\* A plain object (Record<string, V>) is the sequence of its <<key, value>>
\* entries in insertion order, which is the order Object.entries yields.
ObjKeys(o) == {o[i][1] : i \in DOMAIN o}
ObjHas(o, k) == k \in ObjKeys(o)
ObjIndex(o, k) == CHOOSE i \in DOMAIN o : o[i][1] = k
ObjGet(o, k) == o[ObjIndex(o, k)][2]
\* o[k] = v: an existing key keeps its position, a new key goes last
ObjSet(o, k, v) ==
    IF ObjHas(o, k) THEN [o EXCEPT ![ObjIndex(o, k)] = <<k, v>>] ELSE Append(o, <<k, v>>)
\* delete o[k]
ObjDelete(o, k) == SelectSeq(o, LAMBDA e : e[1] # k)
ObjEntries(o) == {o[i] : i \in DOMAIN o}

\* The outcome object of a sportsbook (outcome_key -> OutcomeData) is
\* written in place by applyUpdate, so a snapshot holds it by reference:
\* odds is sportsbook -> reference, heap is reference -> outcome object.
NewRef(h) == CHOOSE r \in 1..(Cardinality(DOMAIN h) + 1) : r \notin DOMAIN h
Refs(odds) == {odds[i][2] : i \in DOMAIN odds}
Deref(odds, h) == [i \in DOMAIN odds |-> <<odds[i][1], h[odds[i][2]]>>]

\* JSON.parse of the odds member of a message: one fresh object per sportsbook
RECURSIVE ParseOdds(_, _, _)
ParseOdds(h, entries, acc) ==
    IF entries = <<>>
    THEN [odds |-> acc, heap |-> h]
    ELSE LET r == NewRef(h)
         IN ParseOdds(h @@ (r :> Head(entries)[2]), Tail(entries),
                      Append(acc, <<Head(entries)[1], r>>))

\* ------------------------------------------------------------- odds store
EMPTY_SNAPSHOT ==
    [sport |-> "", gameId |-> "", homeTeam |-> "", awayTeam |-> "",
     gameDescription |-> "", market |-> Null, odds |-> <<>>, loading |-> FALSE]

\* no message object kept / a message object kept: sent is the message as it
\* was received, object is the parsed object (its odds hold references)
NoHeld == [kept |-> FALSE]
Held(sent, object) == [kept |-> TRUE, sent |-> sent, object |-> object]
HeldRefs(h) == IF h.kept THEN Refs(h.object.odds) ELSE {}

Store == [data |-> oddsData, heap |-> heap, held |-> held]

\* objects neither the snapshot nor a kept message refers to are reclaimed
Collect(st) ==
    [st EXCEPT !.heap = [r \in Refs(st.data.odds) \cup HeldRefs(st.held) |-> st.heap[r]]]

\* variant: loading keeps the value it had
applySnapshotKeepingLoading(st, msg) ==
    [st EXCEPT !.data =
        [sport |-> msg.sport, gameId |-> msg.game_id, homeTeam |-> msg.home_team,
         awayTeam |-> msg.away_team, gameDescription |-> msg.game_description,
         market |-> msg.market, odds |-> msg.odds, loading |-> st.data.loading]]

applySnapshot(st, msg) ==
    [st EXCEPT !.data =
        [sport |-> msg.sport, gameId |-> msg.game_id, homeTeam |-> msg.home_team,
         awayTeam |-> msg.away_team, gameDescription |-> msg.game_description,
         market |-> msg.market, odds |-> msg.odds, loading |-> FALSE]]

\* variant: an outcome with null odds is stored like any other
RECURSIVE MergeOutcomesStoringNull(_, _)
MergeOutcomesStoringNull(inner, outcomes) ==
    IF outcomes = <<>>
    THEN inner
    ELSE MergeOutcomesStoringNull(ObjSet(inner, Head(outcomes)[1], Head(outcomes)[2]),
                                  Tail(outcomes))

\* the inner loop of applyUpdate, on the sportsbook's outcome object
RECURSIVE MergeOutcomes(_, _)
MergeOutcomes(inner, outcomes) ==
    IF outcomes = <<>>
    THEN inner
    ELSE LET key == Head(outcomes)[1]
             outcome == Head(outcomes)[2]
         IN MergeOutcomes(IF outcome.odds = Null
                          THEN ObjDelete(inner, key)
                          ELSE ObjSet(inner, key, outcome),
                          Tail(outcomes))

\* variant: a sportsbook left without outcomes stays in the snapshot
RECURSIVE MergeSportsbooksKeepingEmpty(_, _, _)
MergeSportsbooksKeepingEmpty(updatedOdds, h, entries) ==
    IF entries = <<>>
    THEN [odds |-> updatedOdds, heap |-> h]
    ELSE LET sportsbook == Head(entries)[1]
             outcomes == Head(entries)[2]
             missing == ~ObjHas(updatedOdds, sportsbook)
             fresh == NewRef(h)
             odds1 == IF missing THEN ObjSet(updatedOdds, sportsbook, fresh) ELSE updatedOdds
             h1 == IF missing THEN h @@ (fresh :> <<>>) ELSE h
             ref == ObjGet(odds1, sportsbook)
             h2 == [h1 EXCEPT ![ref] = MergeOutcomes(@, outcomes)]
         IN MergeSportsbooksKeepingEmpty(odds1, h2, Tail(entries))

\* the outer loop of applyUpdate, on the copy updatedOdds of current.odds
RECURSIVE MergeSportsbooks(_, _, _)
MergeSportsbooks(updatedOdds, h, entries) ==
    IF entries = <<>>
    THEN [odds |-> updatedOdds, heap |-> h]
    ELSE LET sportsbook == Head(entries)[1]
             outcomes == Head(entries)[2]
             missing == ~ObjHas(updatedOdds, sportsbook)
             fresh == NewRef(h)
             odds1 == IF missing THEN ObjSet(updatedOdds, sportsbook, fresh) ELSE updatedOdds
             h1 == IF missing THEN h @@ (fresh :> <<>>) ELSE h
             ref == ObjGet(odds1, sportsbook)
             h2 == [h1 EXCEPT ![ref] = MergeOutcomes(@, outcomes)]
             odds2 == IF h2[ref] = <<>> THEN ObjDelete(odds1, sportsbook) ELSE odds1
         IN MergeSportsbooks(odds2, h2, Tail(entries))

\* variant: updatedOdds starts empty instead of as a copy of current.odds
applyUpdateFromEmpty(st, msg) ==
    LET merged == MergeSportsbooks(<<>>, st.heap, msg.odds)
    IN [st EXCEPT !.data = [st.data EXCEPT !.odds = merged.odds], !.heap = merged.heap]

applyUpdate(st, msg) ==
    LET merged == MergeSportsbooks(st.data.odds, st.heap, msg.odds)
    IN [st EXCEPT !.data = [st.data EXCEPT !.odds = merged.odds], !.heap = merged.heap]

clearOdds(st) == [st EXCEPT !.data = EMPTY_SNAPSHOT]

setLoading(st) == [st EXCEPT !.data = [st.data EXCEPT !.loading = TRUE, !.odds = <<>>]]

\* ---------------------------------------------------- messages of the feed
Sportsbooks == <<"draftkings", "fanduel">>
OutcomeKeys == <<"o1", "o2">>
OddsValues  == {Null, "-110", "-105"}

\* the OutcomeData the feed sends for an outcome key: the two sides of a total
OutcomeData(key, odds) ==
    [odds |-> odds, outcome_name |-> "total", outcome_line |-> "5.5",
     outcome_over_under |-> IF key = "o1" THEN "O" ELSE "U",
     outcome_target |-> Null, previous_odds |-> Null, timestamp |-> "t0"]

\* the outcome objects over the keys ks (in that order): each key has no
\* entry or an OutcomeData with one of the odds values
RECURSIVE ObjectsOver(_)
ObjectsOver(ks) ==
    IF ks = <<>>
    THEN {<<>>}
    ELSE LET rest == ObjectsOver(Tail(ks))
         IN rest \cup {<<<<Head(ks), OutcomeData(Head(ks), v)>>>> \o o :
                         v \in OddsValues, o \in rest}

OutcomeObjects == ObjectsOver(OutcomeKeys)
FirstKeyOnly == {o \in OutcomeObjects : ObjKeys(o) = {OutcomeKeys[1]}}
PricedOnly == {o \in OutcomeObjects : o # <<>> /\ \A e \in ObjEntries(o) : e[2].odds = "-110"}

OneBookOf(objects) == {<<<<Sportsbooks[i], o>>>> : i \in DOMAIN Sportsbooks, o \in objects}
TwoBooksOf(objects) ==
    {<<<<Sportsbooks[1], a>>, <<Sportsbooks[2], b>>>> : a \in objects, b \in objects}

\* update: nothing, one sportsbook with any outcome object, or both
\* sportsbooks with their first outcome
UpdateOdds == {<<>>} \cup OneBookOf(OutcomeObjects) \cup TwoBooksOf(FirstKeyOnly)
\* snapshot: nothing, one sportsbook with any outcome object, or both
\* sportsbooks with priced outcomes
SnapshotOdds == {<<>>} \cup OneBookOf(OutcomeObjects) \cup TwoBooksOf(PricedOnly)

Games ==
    { [sport |-> "nba", game_id |-> "g1", home_team |-> "LAL", away_team |-> "BOS",
       game_description |-> "BOS @ LAL", market |-> "total"],
      [sport |-> "nba", game_id |-> "g2", home_team |-> "NYK", away_team |-> "MIA",
       game_description |-> "MIA @ NYK", market |-> Null] }

ServerMessage(type, game, odds) ==
    [type |-> type, sport |-> game.sport, game_id |-> game.game_id,
     home_team |-> game.home_team, away_team |-> game.away_team,
     game_description |-> game.game_description, market |-> game.market, odds |-> odds]

SnapshotMessages == {ServerMessage("snapshot", g, o) : g \in Games, o \in SnapshotOdds}
UpdateMessages == {ServerMessage("update", g, o) : g \in Games, o \in UpdateOdds}
NoServerMessage == [type |-> "none"]

\* ---------------------------------------------------- REST catalogue
\* what the backend lists: two sports with one game each, the first game
\* with two markets
SportsOffered == <<"nba", "nfl">>

GameInfo(id, sport, home, away) ==
    [game_id |-> id, home_team |-> home, away_team |-> away, sport |-> sport,
     game_description |-> away \o " @ " \o home, sportsbook_count |-> 2,
     last_update |-> "t0"]

Catalogue == <<GameInfo("g1", "nba", "LAL", "BOS"), GameInfo("g3", "nfl", "KC", "SF")>>

\* GET /api/games/{sport}
fetchGames(sport) == SelectSeq(Catalogue, LAMBDA g : g.sport = sport)

\* GET /api/markets/{sport}?game_id={gameId}
fetchMarkets(sport, gameId) ==
    IF sport = "nba" /\ gameId = "g1" THEN <<"total", "ml">>
    ELSE IF sport = "nfl" /\ gameId = "g3" THEN <<"ml">>
    ELSE <<>>

\* the value null of the game field of the selections store
NoGame == [game_id |-> Null]

Range(seq) == {seq[i] : i \in DOMAIN seq}
GamesRequests == Range(SportsOffered)
MarketsRequests == {<<s, g.game_id>> : s \in Range(SportsOffered), g \in Range(Catalogue)}
MarketsOffered == UNION {Range(fetchMarkets(r[1], r[2])) : r \in MarketsRequests}

\* ------------------------------------------------ messages of the backend
Tuple(sport, gameId, market) == [sport |-> sport, game_id |-> gameId, market |-> market]
NoTuple == [sport |-> Null, game_id |-> Null, market |-> Null]

ConnectedMessage == [type |-> "connected", server_time |-> "t1"]
PongMessage == [type |-> "pong", server_time |-> "t1"]
StatusMessage ==
    [type |-> "status", upstream_connected |-> TRUE, games_tracked |-> 1,
     sportsbooks_active |-> 2]
ErrorMessage == [type |-> "error", message |-> "no such game"]

\* what reading a member that the parsed object lacks yields
Undefined == "<undefined>"
\* JSON text of an object whose type is none of the ServerMessage literals
UnknownMessage == [type |-> "heartbeat"]
\* JSON text {"type":"pong"}: a pong without its server_time
BarePong == [type |-> "pong", server_time |-> Undefined]

\* the snapshot and the update the backend sends for a subscribed tuple
FeedGame(tuple) ==
    LET g == CHOOSE x \in Range(Catalogue) : x.game_id = tuple.game_id
    IN [sport |-> tuple.sport, game_id |-> g.game_id, home_team |-> g.home_team,
        away_team |-> g.away_team, game_description |-> g.game_description,
        market |-> tuple.market]
FeedSnapshotOdds == <<<<Sportsbooks[1], <<<<OutcomeKeys[1], OutcomeData(OutcomeKeys[1], "-110")>>>>>>>>
FeedUpdateOdds == <<<<Sportsbooks[1], <<<<OutcomeKeys[1], OutcomeData(OutcomeKeys[1], "-105")>>>>>>>>
Feed(tuple) ==
    {ServerMessage("snapshot", FeedGame(tuple), FeedSnapshotOdds),
     ServerMessage("update", FeedGame(tuple), FeedUpdateOdds)}

\* a raw payload (event.data): text that JSON.parse rejects, or the text of a message
Undecodable == [type |-> "undecodable"]
Garbage == [json |-> FALSE, value |-> Undecodable]
Json(message) == [json |-> TRUE, value |-> message]
Payloads(tuples) ==
    {Garbage} \cup {Json(m) : m \in {ConnectedMessage, PongMessage, StatusMessage, ErrorMessage,
                                      UnknownMessage, BarePong}
                                      \cup UNION {Feed(t) : t \in tuples}}

\* ---------------------------------------------------------------- the page
\* The stores and the component state that one event handler and the
\* reactive blocks it triggers work on.
\* By the time the next handler runs the browser has transmitted what the
\* previous one handed to ws.send.
Transmitted(w) == [w EXCEPT !.wire = <<>>]

App ==
    [w |-> Transmitted(World), st |-> Store, sel |-> selections,
     lastSubscription |-> lastSubscription, info |-> connInfo,
     gs |-> gameSelector, ms |-> marketSelector, pending |-> pending]

Complete(sel) == sel.sport # Null /\ sel.game # NoGame /\ sel.market # Null
SelectedTuple(sel) == Tuple(sel.sport, sel.game.game_id, sel.market)
subKey(sel) == sel.sport \o ":" \o sel.game.game_id \o ":" \o sel.market

\* variant: the prior snapshot is kept when a new tuple is subscribed
subscribeBlockKeepingOdds(a) ==
    LET connected == a.w.connState = "connected"
    IN IF Complete(a.sel) /\ connected
       THEN IF subKey(a.sel) # a.lastSubscription
            THEN [a EXCEPT !.lastSubscription = subKey(a.sel),
                           !.w = subscribe(@, a.sel.sport, a.sel.game.game_id, a.sel.market)]
            ELSE a
       ELSE IF ~Complete(a.sel) /\ a.lastSubscription # ""
       THEN [a EXCEPT !.lastSubscription = "", !.st = clearOdds(@), !.w = unsubscribe(@)]
       ELSE a

\* +page.svelte, reactive block "subscribe when all selections are made"
subscribeBlock(a) ==
    LET connected == a.w.connState = "connected"
    IN IF Complete(a.sel) /\ connected
       THEN IF subKey(a.sel) # a.lastSubscription
            THEN [a EXCEPT !.lastSubscription = subKey(a.sel),
                           !.st = setLoading(@),
                           !.w = subscribe(@, a.sel.sport, a.sel.game.game_id, a.sel.market)]
            ELSE a
       ELSE IF ~Complete(a.sel) /\ a.lastSubscription # ""
       THEN [a EXCEPT !.lastSubscription = "", !.st = clearOdds(@), !.w = unsubscribe(@)]
       ELSE a

\* variant: nothing is sent on reconnection
resubscribeBlockSendingNothing(a) == a

\* +page.svelte, reactive block "re-subscribe on reconnection"
resubscribeBlock(a) ==
    IF a.w.connState = "connected" /\ a.lastSubscription # "" /\ Complete(a.sel)
    THEN [a EXCEPT !.w = subscribe(@, a.sel.sport, a.sel.game.game_id, a.sel.market)]
    ELSE a

Bump(counts, key) == [counts EXCEPT ![key] = @ + 1]
Drop(counts, key) == [counts EXCEPT ![key] = @ - 1]

\* GameSelector.svelte: loadGames up to its await
loadGames(a, sport) ==
    [a EXCEPT !.gs.loading = TRUE, !.gs.error = FALSE, !.pending.games = Bump(@, sport)]

\* GameSelector.svelte, reactive block on the selected sport
gameSelectorBlock(a) ==
    LET currentSport == a.sel.sport
    IN IF currentSport # a.gs.lastSport
       THEN LET b == [a EXCEPT !.gs.lastSport = currentSport]
            IN IF currentSport # Null
               THEN loadGames(b, currentSport)
               ELSE [b EXCEPT !.gs.games = <<>>]
       ELSE a

\* MarketSelector.svelte: loadMarkets up to its await
loadMarkets(a, sport, gameId) ==
    [a EXCEPT !.ms.loading = TRUE, !.ms.error = FALSE,
              !.pending.markets = Bump(@, <<sport, gameId>>)]

\* MarketSelector.svelte, reactive block on the selected game
marketSelectorBlock(a) ==
    LET currentGameId == IF a.sel.game = NoGame THEN "" ELSE a.sel.game.game_id
        currentSport == a.sel.sport
    IN IF currentGameId # a.ms.lastGameId
       THEN LET b == [a EXCEPT !.ms.lastGameId = currentGameId]
            IN IF currentSport # Null /\ currentGameId # ""
               THEN loadMarkets(b, currentSport, currentGameId)
               ELSE [b EXCEPT !.ms.markets = <<>>]
       ELSE a

\* the reactive blocks that run after an event handler has set the
\* selections store or the connectionState store, in dependency order
flush(a) == resubscribeBlock(subscribeBlock(marketSelectorBlock(gameSelectorBlock(a))))

\* variant: selecting a game keeps the market
selectGameKeepingMarket(a, game) == [a EXCEPT !.sel = [@ EXCEPT !.game = game]]

\* SportSelector.svelte
selectSport(a, sport) == [a EXCEPT !.sel = [sport |-> sport, game |-> NoGame, market |-> Null]]
\* GameSelector.svelte
selectGame(a, game) == [a EXCEPT !.sel = [@ EXCEPT !.game = game, !.market = Null]]
\* MarketSelector.svelte
selectMarket(a, market) == [a EXCEPT !.sel = [@ EXCEPT !.market = market]]

\* variant: a server error ends the connection and empties the snapshot
handleMessageFatalError(a, message) ==
    CASE message.type = "snapshot" ->
           LET parsed == ParseOdds(a.st.heap, message.odds, <<>>)
           IN [a EXCEPT !.st = applySnapshot([@ EXCEPT !.heap = parsed.heap],
                                             [message EXCEPT !.odds = parsed.odds])]
      [] message.type = "update" -> [a EXCEPT !.st = applyUpdate(@, message)]
      [] message.type = "status" ->
           flush([a EXCEPT !.info = [@ EXCEPT !.upstreamConnected = message.upstream_connected,
                                              !.gamesTracked = message.games_tracked,
                                              !.sportsbooksActive = message.sportsbooks_active]])
      [] message.type = "pong" ->
           flush([a EXCEPT !.info = [@ EXCEPT !.lastPong = message.server_time]])
      [] message.type = "error" ->
           flush([a EXCEPT !.w = onclose(Closed(@, @.ws)), !.st = clearOdds(@)])
      [] OTHER -> a

\* variant: a status message also stamps lastPong
handleMessageStatusStampingPong(a, message) ==
    CASE message.type = "snapshot" ->
           LET parsed == ParseOdds(a.st.heap, message.odds, <<>>)
           IN [a EXCEPT !.st = applySnapshot([@ EXCEPT !.heap = parsed.heap],
                                             [message EXCEPT !.odds = parsed.odds])]
      [] message.type = "update" -> [a EXCEPT !.st = applyUpdate(@, message)]
      [] message.type = "status" ->
           flush([a EXCEPT !.info = [@ EXCEPT !.upstreamConnected = message.upstream_connected,
                                              !.gamesTracked = message.games_tracked,
                                              !.sportsbooksActive = message.sportsbooks_active,
                                              !.lastPong = Undefined]])
      [] message.type = "pong" ->
           flush([a EXCEPT !.info = [@ EXCEPT !.lastPong = message.server_time]])
      [] OTHER -> a

\* root layout, handleMessage
handleMessage(a, message) ==
    CASE message.type = "snapshot" ->
           LET parsed == ParseOdds(a.st.heap, message.odds, <<>>)
           IN [a EXCEPT !.st = applySnapshot([@ EXCEPT !.heap = parsed.heap],
                                             [message EXCEPT !.odds = parsed.odds])]
      [] message.type = "update" -> [a EXCEPT !.st = applyUpdate(@, message)]
      [] message.type = "status" ->
           flush([a EXCEPT !.info = [@ EXCEPT !.upstreamConnected = message.upstream_connected,
                                              !.gamesTracked = message.games_tracked,
                                              !.sportsbooksActive = message.sportsbooks_active]])
      [] message.type = "pong" ->
           flush([a EXCEPT !.info = [@ EXCEPT !.lastPong = message.server_time]])
      [] OTHER -> a

\* variant: a payload that does not parse ends the connection
onmessageClosingOnGarbage(a, payload) ==
    IF ~payload.json
    THEN [a EXCEPT !.w = onclose(Closed(@, @.ws))]
    ELSE handleMessage(a, payload.value)

\* client.ts, ws.onmessage: JSON.parse and the handler inside one try
onmessage(a, payload) ==
    IF ~payload.json
    THEN a
    ELSE handleMessage(a, payload.value)

\* ------------------------------------------------------- view projector
\* JavaScript truthiness of a string | null member
Truthy(v) == v # Null /\ v # "" /\ v # Undefined

NaN == [nan |-> TRUE, n |-> 0]
Number(n) == [nan |-> FALSE, n |-> n]

\* parseInt(text, 10) of the odds texts of the feed
parseInt(text) ==
    CASE text = "+120" -> Number(120)
      [] text = "+150" -> Number(150)
      [] text = "150" -> Number(150)
      [] text = "-105" -> Number(0 - 105)
      [] text = "-110" -> Number(0 - 110)
      [] text = "-120" -> Number(0 - 120)
      [] OTHER -> NaN

\* parseFloat(text) of the line texts of the feed, in tenths
parseFloat(text) ==
    CASE text = "-3.5" -> Number(0 - 35)
      [] text = "-1.5" -> Number(0 - 15)
      [] text = "1.5" -> Number(15)
      [] text = "3.5" -> Number(35)
      [] text = "5.5" -> Number(55)
      [] OTHER -> NaN

\* the labels of the feed in the order of String.prototype.localeCompare
LabelOrder ==
    <<"", "BOS", "BOS 1.5", "BOS 3.5", "LAL", "LAL -1.5", "LAL -3.5", "LAL 5.5", "Over 5.5", "points",
      "spread", "total", "Under 5.5">>
LabelRank(label) == CHOOSE i \in DOMAIN LabelOrder : LabelOrder[i] = label
localeCompare(a, b) ==
    IF LabelRank(a) < LabelRank(b) THEN 0 - 1 ELSE IF LabelRank(a) > LabelRank(b) THEN 1 ELSE 0

\* variant: the target comes before Over/Under
LabelTargetFirst(outcome) ==
    IF Truthy(outcome.outcome_target)
    THEN IF Truthy(outcome.outcome_line)
         THEN outcome.outcome_target \o " " \o outcome.outcome_line
         ELSE outcome.outcome_target
    ELSE IF Truthy(outcome.outcome_over_under) /\ Truthy(outcome.outcome_line)
    THEN (IF outcome.outcome_over_under = "O" THEN "Over" ELSE "Under")
            \o " " \o outcome.outcome_line
    ELSE IF Truthy(outcome.outcome_name) THEN outcome.outcome_name ELSE ""

\* oddsRows: the label of an outcome
Label(outcome) ==
    IF Truthy(outcome.outcome_over_under) /\ Truthy(outcome.outcome_line)
    THEN (IF outcome.outcome_over_under = "O" THEN "Over" ELSE "Under")
            \o " " \o outcome.outcome_line
    ELSE IF Truthy(outcome.outcome_target)
    THEN IF Truthy(outcome.outcome_line)
         THEN outcome.outcome_target \o " " \o outcome.outcome_line
         ELSE outcome.outcome_target
    ELSE IF Truthy(outcome.outcome_name) THEN outcome.outcome_name ELSE ""

NewRow(outcome) ==
    [label |-> Label(outcome), outcomeName |-> outcome.outcome_name,
     outcomeLine |-> outcome.outcome_line, overUnder |-> outcome.outcome_over_under,
     target |-> outcome.outcome_target, cells |-> <<>>, bestBook |-> Null]

\* variant: a sportsbook gets a cell whatever its odds
AddCellWithoutOdds(rowMap, sportsbook, key, outcome) ==
    LET withRow == IF ObjHas(rowMap, key) THEN rowMap ELSE ObjSet(rowMap, key, NewRow(outcome))
        row == ObjGet(withRow, key)
    IN ObjSet(withRow, key, [row EXCEPT !.cells = ObjSet(@, sportsbook, outcome)])

\* oddsRows: the body of the inner loop, for one outcome of one sportsbook
AddCell(rowMap, sportsbook, key, outcome) ==
    LET withRow == IF ObjHas(rowMap, key) THEN rowMap ELSE ObjSet(rowMap, key, NewRow(outcome))
        row == ObjGet(withRow, key)
    IN IF Truthy(outcome.odds)
       THEN ObjSet(withRow, key, [row EXCEPT !.cells = ObjSet(@, sportsbook, outcome)])
       ELSE withRow

RECURSIVE AddOutcomes(_, _, _)
AddOutcomes(rowMap, sportsbook, outcomes) ==
    IF outcomes = <<>>
    THEN rowMap
    ELSE AddOutcomes(AddCell(rowMap, sportsbook, Head(outcomes)[1], Head(outcomes)[2]),
                     sportsbook, Tail(outcomes))

\* oddsRows: the two loops that fill rowMap
RECURSIVE BuildRowMap(_, _)
BuildRowMap(rowMap, odds) ==
    IF odds = <<>>
    THEN rowMap
    ELSE BuildRowMap(AddOutcomes(rowMap, Head(odds)[1], Head(odds)[2]), Tail(odds))

NoBest == [found |-> FALSE, odds |-> 0, book |-> Null]

\* variant: the lowest odds win
BetterLowest(best, book, cell) ==
    LET numericOdds == parseInt(cell.odds)
    IN IF Truthy(cell.odds) /\ ~numericOdds.nan /\ (~best.found \/ numericOdds.n < best.odds)
       THEN [found |-> TRUE, odds |-> numericOdds.n, book |-> book]
       ELSE best

\* oddsRows: the body of the best-odds loop (bestOdds starts at -Infinity)
Better(best, book, cell) ==
    LET numericOdds == parseInt(cell.odds)
    IN IF Truthy(cell.odds) /\ ~numericOdds.nan /\ (~best.found \/ numericOdds.n > best.odds)
       THEN [found |-> TRUE, odds |-> numericOdds.n, book |-> book]
       ELSE best

RECURSIVE BestOf(_, _)
BestOf(best, cells) ==
    IF cells = <<>>
    THEN best
    ELSE BestOf(Better(best, Head(cells)[1], Head(cells)[2]), Tail(cells))

WithBestBook(row) == [row EXCEPT !.bestBook = BestOf(NoBest, row.cells).book]

LineOf(row) == IF Truthy(row.outcomeLine) THEN parseFloat(row.outcomeLine) ELSE Number(0)

\* variant: Under before Over
compareUnderFirst(a, b) ==
    LET lineA == LineOf(a)
        lineB == LineOf(b)
    IN IF lineA.nan \/ lineB.nan THEN 0
       ELSE IF lineA.n # lineB.n THEN lineA.n - lineB.n
       ELSE IF a.overUnder = "O" /\ b.overUnder = "U" THEN 1
       ELSE IF a.overUnder = "U" /\ b.overUnder = "O" THEN 0 - 1
       ELSE localeCompare(a.label, b.label)

\* oddsRows: the comparator of rows.sort (a NaN result counts as 0)
compare(a, b) ==
    LET lineA == LineOf(a)
        lineB == LineOf(b)
    IN IF lineA.nan \/ lineB.nan THEN 0
       ELSE IF lineA.n # lineB.n THEN lineA.n - lineB.n
       ELSE IF a.overUnder = "O" /\ b.overUnder = "U" THEN 0 - 1
       ELSE IF a.overUnder = "U" /\ b.overUnder = "O" THEN 1
       ELSE localeCompare(a.label, b.label)

\* Array.prototype.sort is stable: a row goes before the first row that
\* compares greater than it
InsertRow(sorted, row) ==
    LET after == {i \in DOMAIN sorted : compare(sorted[i], row) > 0}
        at == IF after = {} THEN Len(sorted) + 1 ELSE SetMin(after)
    IN SubSeq(sorted, 1, at - 1) \o <<row>> \o SubSeq(sorted, at, Len(sorted))

RECURSIVE SortRows(_, _)
SortRows(sorted, rows) ==
    IF rows = <<>> THEN sorted ELSE SortRows(InsertRow(sorted, Head(rows)), Tail(rows))

\* the derived store oddsRows for a snapshot with these odds
oddsRows(odds) ==
    LET rowMap == BuildRowMap(<<>>, odds)
        rows == [i \in DOMAIN rowMap |-> WithBestBook(rowMap[i][2])]
    IN SortRows(<<>>, rows)

\* the outcomes of the feed the projection is tried on: the two sides of two
\* spreads, the two sides of a total, a player total with the label of the
\* game total, and the two sides of a moneyline
ViewKeys == {"s1", "s2", "s3", "s4", "t1", "t2", "p1", "m1", "m2"}
ViewOutcome(key, odds) ==
    LET spread == key \in {"s1", "s2", "s3", "s4"}
        total == key \in {"t1", "t2", "p1"}
    IN [odds |-> odds,
        outcome_name |-> IF spread THEN "spread" ELSE IF key = "p1" THEN "points"
                         ELSE IF total THEN "total" ELSE "moneyline",
        outcome_line |-> CASE key = "s1" -> "-3.5" [] key = "s2" -> "3.5"
                           [] key = "s3" -> "-1.5" [] key = "s4" -> "1.5"
                           [] total -> "5.5" [] OTHER -> Null,
        outcome_over_under |-> IF key \in {"t1", "p1"} THEN "O" ELSE IF key = "t2" THEN "U" ELSE Null,
        outcome_target |-> IF key \in {"s1", "s3", "m1"} THEN "LAL"
                           ELSE IF key \in {"s2", "s4", "m2"} THEN "BOS"
                           ELSE IF key = "p1" THEN "James" ELSE Null,
        previous_odds |-> Null, timestamp |-> "t0"]

ViewBooks == {"bookA", "bookB", "bookC", "bookD"}
ViewOdds == {Null, "+120", "+150", "150", "EVEN"}

\* the sequences without repetition of at most n elements of S
RECURSIVE Arrangements(_, _)
Arrangements(S, n) ==
    IF n = 0 THEN {<<>>}
    ELSE {<<>>} \cup {<<x>> \o rest : x \in S, rest \in Arrangements(S, n - 1)}
Distinct(seq) == \A i, j \in DOMAIN seq : i # j => seq[i] # seq[j]

\* one sportsbook with up to MaxRowKeys outcomes, in every insertion order
OneBookSnapshots ==
    {<<<<"bookA", [i \in DOMAIN ks |-> <<ks[i], ViewOutcome(ks[i], "-110")>>]>>>> :
        ks \in {a \in Arrangements(ViewKeys, MaxRowKeys) : Distinct(a)}}

\* up to MaxBooks sportsbooks, in every insertion order, each pricing the
\* over of the total
OneRowSnapshots ==
    UNION {{[i \in DOMAIN bs |-> <<bs[i], <<<<"t1", ViewOutcome("t1", price[i])>>>>>>] :
              price \in [DOMAIN bs -> ViewOdds]} :
           bs \in {a \in Arrangements(ViewBooks, MaxBooks) : Distinct(a)}}

\* one sportsbook with one outcome, each of its name, line, side and target
\* present or absent
LabelSnapshots ==
    {<<<<"bookA", <<<<"k1", [odds |-> "-110", outcome_name |-> name, outcome_line |-> line,
                            outcome_over_under |-> side, outcome_target |-> target,
                            previous_odds |-> Null, timestamp |-> "t0"]>>>>>>>> :
        name \in {"", "total"}, line \in {Null, "5.5"}, side \in {Null, "O", "U"},
        target \in {Null, "LAL"}}

ViewSnapshots == OneBookSnapshots \cup OneRowSnapshots \cup LabelSnapshots

\* ----------------------------------------------------------------- actions
Init ==
    /\ ws = 0
    /\ readyState = [t \in Transports |-> "NONE"]
    /\ reconnectDelay = InitialReconnectDelay
    /\ reconnectTimer = 0
    /\ timers = {}
    /\ pingInterval = 0
    /\ intervals = {}
    /\ intentionalClose = FALSE
    /\ connState = "disconnected"
    /\ wire = <<>>
    /\ prevReported = "none"
    /\ closeRequested = {}
    /\ failures = 0
    /\ everOpened = FALSE
    /\ closedByOwner = FALSE
    /\ lastCall = Call("init", 0, NoMessage, 0)
    /\ oddsData = EMPTY_SNAPSHOT
    /\ heap = <<>>
    /\ held = NoHeld
    /\ replays = 0
    /\ lastMessage = NoServerMessage
    /\ ops = 0
    /\ mounted = FALSE
    /\ selections = [sport |-> Null, game |-> NoGame, market |-> Null]
    /\ lastSubscription = ""
    /\ connInfo = [upstreamConnected |-> FALSE, gamesTracked |-> 0, sportsbooksActive |-> 0,
                   lastPong |-> Null]
    /\ sportSelector = [sports |-> <<>>, loading |-> TRUE, error |-> FALSE]
    /\ gameSelector = [games |-> <<>>, loading |-> FALSE, error |-> FALSE, lastSport |-> ""]
    /\ marketSelector = [markets |-> <<>>, loading |-> FALSE, error |-> FALSE, lastGameId |-> ""]
    /\ pending = [sports |-> FALSE, games |-> [r \in GamesRequests |-> 0],
                  markets |-> [r \in MarketsRequests |-> 0]]
    /\ requested = {}
    /\ lastSubscribed = NoTuple
    /\ dropped = FALSE
    /\ view = [odds |-> <<>>, rows |-> <<>>]
    /\ oddsCells = [k \in 1..MaxCells |-> [status |-> "none", data |-> [null |-> TRUE],
                                      movement |-> "<null>", movementTimer |-> 0]]
    /\ movementTimers = <<>>
    /\ now = 0
    /\ changedAt = [k \in 1..MaxCells |-> 0 - 1]
    /\ lateExpiry = {}

\* the owner calls connect()
Connect ==
    /\ UNCHANGED <<storeVars, pageVars>>
    /\ IsActive(World) \/ FreeTransports(World) # {}
    /\ Commit(connect(World))
    /\ closedByOwner' = FALSE
    /\ lastCall' = Call("connect", 0, NoMessage, 0)
    /\ UNCHANGED <<failures, everOpened>>

\* the peer starts the closing handshake on the open transport t: readyState
\* becomes CLOSING, no event is dispatched yet
TransportClosing(t) ==
    /\ UNCHANGED <<storeVars, pageVars>>
    /\ readyState[t] = "OPEN"
    /\ Commit([World EXCEPT !.readyState[t] = "CLOSING"])
    /\ lastCall' = Call("closing", t, NoMessage, 0)
    /\ UNCHANGED <<failures, everOpened, closedByOwner>>

\* the owner calls disconnect()
Disconnect ==
    /\ UNCHANGED <<storeVars, pageVars>>
    /\ Commit(disconnect(World))
    /\ closedByOwner' = TRUE
    /\ lastCall' = Call("disconnect", 0, NoMessage, 0)
    /\ UNCHANGED <<failures, everOpened>>

\* the handshake of transport t succeeds: readyState OPEN, open event
TransportOpen(t) ==
    /\ UNCHANGED <<storeVars, pageVars>>
    /\ readyState[t] = "CONNECTING"
    /\ Commit(onopen([World EXCEPT !.readyState[t] = "OPEN"]))
    /\ failures' = 0
    /\ everOpened' = TRUE
    /\ lastCall' = Call("onopen", t, NoMessage, 0)
    /\ UNCHANGED closedByOwner

\* the connection of transport t ends: close event.  Unless the client had
\* called close() on it, this is a failed handshake, a dropped connection or
\* a close by the peer.
TransportClose(t) ==
    /\ UNCHANGED <<storeVars, pageVars>>
    /\ readyState[t] \in {"CONNECTING", "OPEN", "CLOSING"}
    /\ t \notin closeRequested => failures < MaxFailures
    /\ ~intentionalClose => FreeTimers(World) # {}
    /\ LET w == onclose(Closed(World, t))
       IN /\ Commit(w)
          /\ lastCall' = Call("onclose", t, NoMessage, w.scheduled)
    /\ failures' = IF t \notin closeRequested THEN failures + 1 ELSE failures
    /\ UNCHANGED <<everOpened, closedByOwner>>

\* the timeout k set by scheduleReconnect fires: () => this.connect()
ReconnectTimerFire(k) ==
    /\ UNCHANGED <<storeVars, pageVars>>
    /\ k \in timers
    /\ LET w == [World EXCEPT !.timers = @ \ {k},
                              !.reconnectTimer = IF @ = k THEN Stale ELSE @]
       IN /\ IsActive(w) \/ FreeTransports(w) # {}
          /\ Commit(connect(w))
    /\ lastCall' = Call("reconnectTimer", 0, NoMessage, 0)
    /\ UNCHANGED <<failures, everOpened, closedByOwner>>

CanRecord(w) == IsOpen(w) => Len(w.wire) < MaxWire

\* the heartbeat interval i fires: () => this.send({ type: 'ping' })
HeartbeatTick(i) ==
    /\ UNCHANGED <<storeVars, pageVars>>
    /\ i \in intervals
    /\ CanRecord(World)
    /\ Commit(send(World, PingMessage))
    /\ lastCall' = Call("heartbeat", 0, PingMessage, 0)
    /\ UNCHANGED historyVars

\* the page calls subscribe(sport, gameId, market)
Subscribe(sport, gameId, market) ==
    /\ UNCHANGED <<storeVars, pageVars>>
    /\ CanRecord(World)
    /\ Commit(subscribe(World, sport, gameId, market))
    /\ lastCall' = Call("subscribe", 0, SubscribeMessage(sport, gameId, market), 0)
    /\ UNCHANGED <<failures, everOpened, closedByOwner>>

\* the page calls unsubscribe()
Unsubscribe ==
    /\ UNCHANGED <<storeVars, pageVars>>
    /\ CanRecord(World)
    /\ Commit(unsubscribe(World))
    /\ lastCall' = Call("unsubscribe", 0, UnsubscribeMessage, 0)
    /\ UNCHANGED <<failures, everOpened, closedByOwner>>

Next ==
    \/ Connect
    \/ Disconnect
    \/ \E t \in Transports : TransportOpen(t)
    \/ \E t \in Transports : TransportClosing(t)
    \/ \E t \in Transports : TransportClose(t)
    \/ \E k \in TimerIds : ReconnectTimerFire(k)
    \/ \E i \in IntervalIds : HeartbeatTick(i)
    \/ \E s \in Sports, g \in GameIds, m \in Markets : Subscribe(s, g, m)
    \/ Unsubscribe

Spec == Init /\ [][Next]_vars

\* ------------------------------------------------------------ store actions
CommitStore(st) ==
    /\ oddsData' = st.data
    /\ heap' = st.heap

\* handleMessage, case 'snapshot': the parsed message goes to applySnapshot
ApplySnapshot(m) ==
    /\ ops < MaxOps
    /\ LET st == Collect(Store)
           parsed == ParseOdds(st.heap, m.odds, <<>>)
       IN CommitStore(applySnapshot([st EXCEPT !.heap = parsed.heap],
                                    [m EXCEPT !.odds = parsed.odds]))
    /\ lastMessage' = m
    /\ lastCall' = Call("applySnapshot", 0, NoMessage, 0)
    /\ ops' = ops + 1
    /\ UNCHANGED <<clientVars, historyVars, pageVars, held, replays>>

\* handleMessage, case 'update'
ApplyUpdate(m) ==
    /\ ops < MaxOps
    /\ CommitStore(applyUpdate(Collect(Store), m))
    /\ lastMessage' = m
    /\ lastCall' = Call("applyUpdate", 0, NoMessage, 0)
    /\ ops' = ops + 1
    /\ UNCHANGED <<clientVars, historyVars, pageVars, held, replays>>

\* the page calls clearOdds()
ClearOdds ==
    /\ ops < MaxOps
    /\ CommitStore(clearOdds(Collect(Store)))
    /\ lastMessage' = NoServerMessage
    /\ lastCall' = Call("clearOdds", 0, NoMessage, 0)
    /\ ops' = ops + 1
    /\ UNCHANGED <<clientVars, historyVars, pageVars, held, replays>>

\* the page calls setLoading()
SetLoading ==
    /\ ops < MaxOps
    /\ CommitStore(setLoading(Collect(Store)))
    /\ lastMessage' = NoServerMessage
    /\ lastCall' = Call("setLoading", 0, NoMessage, 0)
    /\ ops' = ops + 1
    /\ UNCHANGED <<clientVars, historyVars, pageVars, held, replays>>

NextStore ==
    \/ \E m \in SnapshotMessages : ApplySnapshot(m)
    \/ \E m \in UpdateMessages : ApplyUpdate(m)
    \/ ClearOdds
    \/ SetLoading

StoreSpec == Init /\ [][NextStore]_vars

\* a direct caller of applySnapshot passes a message object and keeps it
CallApplySnapshot(m) ==
    /\ ops < MaxOps
    /\ LET st == Collect([Store EXCEPT !.held = NoHeld])
           parsed == ParseOdds(st.heap, m.odds, <<>>)
           object == [m EXCEPT !.odds = parsed.odds]
       IN /\ CommitStore(applySnapshot([st EXCEPT !.heap = parsed.heap], object))
          /\ held' = Held(m, object)
    /\ lastMessage' = m
    /\ lastCall' = Call("applySnapshot", 0, NoMessage, 0)
    /\ ops' = ops + 1
    /\ UNCHANGED <<clientVars, historyVars, pageVars, replays>>

\* the caller passes the message object it kept to applySnapshot once more
CallApplySnapshotAgain ==
    /\ held.kept
    /\ replays < MaxReplays
    /\ CommitStore(applySnapshot(Collect(Store), held.object))
    /\ lastMessage' = held.sent
    /\ lastCall' = Call("applySnapshotAgain", 0, NoMessage, 0)
    /\ replays' = replays + 1
    /\ UNCHANGED <<clientVars, historyVars, pageVars, held, ops>>

\* the store driven by direct calls, snapshot message objects being kept
NextReplay ==
    \/ \E m \in SnapshotMessages : CallApplySnapshot(m)
    \/ CallApplySnapshotAgain
    \/ \E m \in UpdateMessages : ApplyUpdate(m)
    \/ ClearOdds
    \/ SetLoading

ReplaySpec == Init /\ [][NextReplay]_vars

\* ------------------------------------------------------------ page actions
SubscribesIn(messages) == SelectSeq(messages, LAMBDA m : m.type = "subscribe")
TupleOf(m) == Tuple(m.sport, m.game_id, m.market)

Total(counts) ==
    LET RECURSIVE Sum(_)
        Sum(K) == IF K = {} THEN 0
                  ELSE LET k == CHOOSE x \in K : TRUE IN counts[k] + Sum(K \ {k})
    IN Sum(DOMAIN counts)

CommitAppNoting(a, undecodable) ==
    /\ Total(a.pending.games) <= MaxPending
    /\ Total(a.pending.markets) <= MaxPending
    /\ Commit(a.w)
    /\ CommitStore(Collect(a.st))
    /\ selections' = a.sel
    /\ lastSubscription' = a.lastSubscription
    /\ connInfo' = a.info
    /\ gameSelector' = a.gs
    /\ marketSelector' = a.ms
    /\ pending' = a.pending
    /\ LET subs == SubscribesIn(a.w.wire)
       IN /\ requested' = IF subs # <<>> THEN {TupleOf(subs[Len(subs)])}
                          ELSE IF a.w.ws = ws THEN requested ELSE {}
          /\ lastSubscribed' = IF subs = <<>> THEN lastSubscribed ELSE TupleOf(subs[Len(subs)])
    /\ dropped' = IF a.w.ws = ws THEN dropped \/ undecodable ELSE FALSE
    /\ UNCHANGED <<held, replays, view, cellVars>>

CommitApp(a) == CommitAppNoting(a, FALSE)

\* root layout onMount: new OddsWebSocket(...).connect(); SportSelector
\* onMount: fetchSports(); the components' reactive blocks run once
Mount ==
    /\ ~mounted
    /\ mounted' = TRUE
    /\ CommitApp(flush([App EXCEPT !.w = connect(@), !.pending.sports = TRUE]))
    /\ closedByOwner' = FALSE
    /\ lastCall' = Call("mount", 0, NoMessage, 0)
    /\ lastMessage' = NoServerMessage
    /\ UNCHANGED <<failures, everOpened, sportSelector, ops>>

\* SportSelector onMount: fetchSports() settles
SportsResponse(ok) ==
    /\ pending.sports
    /\ sportSelector' = IF ok THEN [sports |-> SportsOffered, loading |-> FALSE, error |-> FALSE]
                        ELSE [sportSelector EXCEPT !.loading = FALSE, !.error = TRUE]
    /\ CommitApp([App EXCEPT !.pending.sports = FALSE])
    /\ lastCall' = Call("fetchSports", 0, NoMessage, 0)
    /\ lastMessage' = NoServerMessage
    /\ UNCHANGED <<failures, everOpened, closedByOwner, mounted, ops>>

\* a click on a sport button of SportSelector
SelectSport(sport) ==
    /\ mounted
    /\ ~sportSelector.loading /\ ~sportSelector.error
    /\ sport \in Range(sportSelector.sports)
    /\ CommitApp(flush(selectSport(App, sport)))
    /\ lastCall' = Call("selectSport", 0, NoMessage, 0)
    /\ lastMessage' = NoServerMessage
    /\ UNCHANGED <<failures, everOpened, closedByOwner, mounted, sportSelector, ops>>

\* a click on a game button of GameSelector
SelectGame(game) ==
    /\ selections.sport # Null
    /\ ~gameSelector.loading /\ ~gameSelector.error
    /\ game \in Range(gameSelector.games)
    /\ CommitApp(flush(selectGame(App, game)))
    /\ lastCall' = Call("selectGame", 0, NoMessage, 0)
    /\ lastMessage' = NoServerMessage
    /\ UNCHANGED <<failures, everOpened, closedByOwner, mounted, sportSelector, ops>>

\* a click on a market button of MarketSelector
SelectMarket(market) ==
    /\ selections.game # NoGame
    /\ ~marketSelector.loading /\ ~marketSelector.error
    /\ market \in Range(marketSelector.markets)
    /\ CommitApp(flush(selectMarket(App, market)))
    /\ lastCall' = Call("selectMarket", 0, NoMessage, 0)
    /\ lastMessage' = NoServerMessage
    /\ UNCHANGED <<failures, everOpened, closedByOwner, mounted, sportSelector, ops>>

\* loadGames(sport) resumes after its await: fetchGames settled
GamesResponse(sport, ok) ==
    /\ pending.games[sport] > 0
    /\ LET a == [App EXCEPT !.pending.games = Drop(@, sport), !.gs.loading = FALSE]
       IN CommitApp(IF ok THEN [a EXCEPT !.gs.games = fetchGames(sport)]
                    ELSE [a EXCEPT !.gs.error = TRUE])
    /\ lastCall' = Call("fetchGames", 0, NoMessage, 0)
    /\ lastMessage' = NoServerMessage
    /\ UNCHANGED <<failures, everOpened, closedByOwner, mounted, sportSelector, ops>>

\* loadMarkets(sport, gameId) resumes after its await: fetchMarkets settled
MarketsResponse(sport, gameId, ok) ==
    /\ pending.markets[<<sport, gameId>>] > 0
    /\ LET a == [App EXCEPT !.pending.markets = Drop(@, <<sport, gameId>>), !.ms.loading = FALSE]
       IN CommitApp(IF ok THEN [a EXCEPT !.ms.markets = fetchMarkets(sport, gameId)]
                    ELSE [a EXCEPT !.ms.error = TRUE])
    /\ lastCall' = Call("fetchMarkets", 0, NoMessage, 0)
    /\ lastMessage' = NoServerMessage
    /\ UNCHANGED <<failures, everOpened, closedByOwner, mounted, sportSelector, ops>>

NextSelector ==
    \/ Mount
    \/ \E ok \in BOOLEAN : SportsResponse(ok)
    \/ \E sport \in Range(SportsOffered) : SelectSport(sport)
    \/ \E game \in Range(Catalogue) : SelectGame(game)
    \/ \E market \in MarketsOffered : SelectMarket(market)
    \/ \E sport \in GamesRequests, ok \in BOOLEAN : GamesResponse(sport, ok)
    \/ \E r \in MarketsRequests, ok \in BOOLEAN : MarketsResponse(r[1], r[2], ok)

\* the selectors and the REST responses, the connection staying as connect() left it
SelectorSpec == Init /\ [][NextSelector]_vars

\* open event of transport t under the page: onopen, then the reactive blocks
PageOpen(t) ==
    /\ readyState[t] = "CONNECTING"
    /\ CommitApp(flush([App EXCEPT !.w = onopen([@ EXCEPT !.readyState[t] = "OPEN"])]))
    /\ failures' = 0
    /\ everOpened' = TRUE
    /\ lastCall' = Call("onopen", t, NoMessage, 0)
    /\ lastMessage' = NoServerMessage
    /\ UNCHANGED <<closedByOwner, mounted, sportSelector, ops>>

\* close event of transport t under the page: onclose, then the reactive blocks
PageClose(t) ==
    /\ readyState[t] \in {"CONNECTING", "OPEN", "CLOSING"}
    /\ t \notin closeRequested => failures < MaxDrops
    /\ ~intentionalClose => FreeTimers(World) # {}
    /\ LET w == onclose(Closed(App.w, t))
       IN /\ CommitApp(flush([App EXCEPT !.w = w]))
          /\ lastCall' = Call("onclose", t, NoMessage, w.scheduled)
    /\ failures' = IF t \notin closeRequested THEN failures + 1 ELSE failures
    /\ lastMessage' = NoServerMessage
    /\ UNCHANGED <<everOpened, closedByOwner, mounted, sportSelector, ops>>

\* the reconnect timeout k fires under the page: connect(), then the reactive blocks
PageReconnect(k) ==
    /\ k \in timers
    /\ LET w == [App.w EXCEPT !.timers = @ \ {k},
                              !.reconnectTimer = IF @ = k THEN Stale ELSE @]
       IN /\ IsActive(w) \/ FreeTransports(w) # {}
          /\ CommitApp(flush([App EXCEPT !.w = connect(w)]))
    /\ lastCall' = Call("reconnectTimer", 0, NoMessage, 0)
    /\ lastMessage' = NoServerMessage
    /\ UNCHANGED <<failures, everOpened, closedByOwner, mounted, sportSelector, ops>>

IsFeed(payload) == payload.json /\ payload.value.type \in {"snapshot", "update"}

\* message event of the open transport t: ws.onmessage with the raw payload
Receive(t, payload) ==
    /\ readyState[t] = "OPEN"
    /\ payload \in Payloads(requested)
    /\ IsFeed(payload) => ops < MaxOps
    /\ CommitAppNoting(onmessage(App, payload), ~payload.json)
    /\ ops' = IF IsFeed(payload) THEN ops + 1 ELSE ops
    /\ lastMessage' = payload.value
    /\ lastCall' = Call("onmessage", t, NoMessage, 0)
    /\ UNCHANGED <<failures, everOpened, closedByOwner, mounted, sportSelector>>

AllTuples ==
    {Tuple(s, g.game_id, m) : s \in Range(SportsOffered), g \in Range(Catalogue), m \in MarketsOffered}

\* the sport the user of the page clicks
PageSports == {SportsOffered[1]}

PagePayloads == Payloads(AllTuples)

NextPage ==
    \/ Mount
    \/ SportsResponse(TRUE)
    \/ \E sport \in PageSports : SelectSport(sport)
    \/ \E game \in Range(Catalogue) : SelectGame(game)
    \/ \E market \in MarketsOffered : SelectMarket(market)
    \/ \E sport \in GamesRequests : GamesResponse(sport, TRUE)
    \/ \E r \in MarketsRequests : MarketsResponse(r[1], r[2], TRUE)
    \/ \E t \in Transports : PageOpen(t)
    \/ \E t \in Transports : TransportClosing(t)
    \/ \E t \in Transports : PageClose(t)
    \/ \E k \in TimerIds : PageReconnect(k)
    \/ \E i \in IntervalIds : HeartbeatTick(i)
    \/ \E t \in Transports, payload \in PagePayloads : Receive(t, payload)

\* the page: selectors, REST responses, connection lifecycle and the feed
PageSpec == Init /\ [][NextPage]_vars

\* the backend answers the subscribe of the tuple it serves: a snapshot of
\* that tuple or an error message
Answer(t, payload) ==
    /\ payload.json
    /\ payload.value.type \in {"snapshot", "error"}
    /\ Receive(t, payload)

NextLoading ==
    \/ Mount
    \/ SportsResponse(TRUE)
    \/ \E sport \in PageSports : SelectSport(sport)
    \/ \E game \in Range(Catalogue) : SelectGame(game)
    \/ \E market \in MarketsOffered : SelectMarket(market)
    \/ \E sport \in GamesRequests : GamesResponse(sport, TRUE)
    \/ \E r \in MarketsRequests : MarketsResponse(r[1], r[2], TRUE)
    \/ \E t \in Transports : PageOpen(t)
    \/ \E t \in Transports : PageClose(t)
    \/ \E k \in TimerIds : PageReconnect(k)
    \/ \E t \in Transports, payload \in PagePayloads : Answer(t, payload)

\* a reconnect timeout is pending and its callback can run: the guard of
\* PageReconnect
ReconnectDue ==
    \E k \in TimerIds :
        /\ k \in timers
        /\ LET w == [World EXCEPT !.timers = @ \ {k}]
           IN IsActive(w) \/ FreeTransports(w) # {}

\* The page with the answers of the backend to its subscribes, with fair
\* scheduling: the layout's onMount runs, and a pending reconnect timeout
\* is eventually run by the event loop (weak fairness of PageReconnect,
\* written with its guard).
LoadingSpec ==
    /\ Init /\ [][NextLoading]_vars
    /\ WF_vars(Mount)
    /\ ([]<>~ReconnectDue \/ []<><<\E k \in TimerIds : PageReconnect(k)>>_vars)

\* oddsData, empty so far, takes a snapshot with these odds and OddsGrid
\* reads $oddsRows
Project(odds) ==
    /\ view.odds = <<>>
    /\ view' = [odds |-> odds, rows |-> oddsRows(odds)]
    /\ lastCall' = Call("oddsRows", 0, NoMessage, 0)
    /\ UNCHANGED <<clientVars, historyVars, storeVars, mounted, selections, lastSubscription,
                   connInfo, sportSelector, gameSelector, marketSelector, pending, requested,
                   lastSubscribed, dropped, cellVars>>

NextRows == \E odds \in ViewSnapshots : Project(odds)

\* the view projector on the snapshots of ViewSnapshots
RowsSpec == Init /\ [][NextRows]_vars

\* ---------------------------------------------------------------- OddsCell
Cells == 1..MaxCells
TickMs == 1000

\* data = null, and the OutcomeData of a cell with these odds and previous odds
NoData == [null |-> TRUE]
CellOutcome(odds, previous) == [ViewOutcome("m1", odds) EXCEPT !.previous_odds = previous]
CellData ==
    {NoData, CellOutcome("-120", "-110"), CellOutcome("-110", "-120"),
     CellOutcome("EVEN", "-110")}

Grid == [cells |-> oddsCells, timers |-> movementTimers]

\* setTimeout returns a handle never returned before
UsedIds(g) == DOMAIN g.timers \cup ({g.cells[k].movementTimer : k \in Cells} \ {0, Stale})
FreshId(g) == CHOOSE i \in 1..(Cardinality(UsedIds(g)) + 1) : i \notin UsedIds(g)
\* every cell holds at most one handle and arms one more before it drops it
MovementIds == 1..(MaxCells + 1)
CancelMovement(table, id) == [i \in DOMAIN table \ {id} |-> table[i]]

\* variant: the timeout armed before stays pending
movementBlockKeepingTimer(g, k, t) ==
    LET d == g.cells[k].data
    IN IF d # NoData /\ Truthy(d.previous_odds) /\ Truthy(d.odds) /\ d.previous_odds # d.odds
       THEN LET prev == parseInt(d.previous_odds)
                curr == parseInt(d.odds)
                id == FreshId(g)
            IN IF ~prev.nan /\ ~curr.nan
               THEN [cells |-> [g.cells EXCEPT
                                   ![k].movement = IF curr.n > prev.n THEN "up" ELSE "down",
                                   ![k].movementTimer = id],
                     timers |-> g.timers @@ (id :> [cell |-> k, due |-> t + MovementMs])]
               ELSE g
       ELSE g

\* OddsCell: the reactive block on data, run at time t
movementBlock(g, k, t) ==
    LET d == g.cells[k].data
    IN IF d # NoData /\ Truthy(d.previous_odds) /\ Truthy(d.odds) /\ d.previous_odds # d.odds
       THEN LET prev == parseInt(d.previous_odds)
                curr == parseInt(d.odds)
                cleared == IF g.cells[k].movementTimer # 0
                           THEN CancelMovement(g.timers, g.cells[k].movementTimer)
                           ELSE g.timers
                id == FreshId(g)
            IN IF ~prev.nan /\ ~curr.nan
               THEN [cells |-> [g.cells EXCEPT
                                   ![k].movement = IF curr.n > prev.n THEN "up" ELSE "down",
                                   ![k].movementTimer = id],
                     timers |-> cleared @@ (id :> [cell |-> k, due |-> t + MovementMs])]
               ELSE g
       ELSE g

\* the grid sets the data prop of cell k: the reactive block runs
setData(g, k, d, t) == movementBlock([g EXCEPT !.cells[k].data = d], k, t)

\* OddsGrid's each blocks after rows = $oddsRows changed: every cell on
\* screen has its data prop set, to the outcome the new rows hold for it
RECURSIVE renderCells(_, _, _, _)
renderCells(g, ks, data, t) ==
    IF ks = {}
    THEN g
    ELSE LET k == CHOOSE x \in ks : \A y \in ks : x <= y
         IN renderCells(setData(g, k, data[k], t), ks \ {k}, data, t)

\* a cell is created with its data: movement and movementTimer start null
\* and the reactive block runs
createCell(g, k, d, t) ==
    setData([g EXCEPT !.cells[k] = [status |-> "alive", data |-> NoData, movement |-> Null,
                                    movementTimer |-> 0]], k, d, t)

\* OddsCell onDestroy
onDestroy(g, k) ==
    [cells |-> [g.cells EXCEPT ![k].status = "destroyed"],
     timers |-> IF g.cells[k].movementTimer # 0
                THEN CancelMovement(g.timers, g.cells[k].movementTimer)
                ELSE g.timers]

\* the callback of a movement timeout: movement = null in the cell that armed
\* it; a movementTimer that still holds the handle holds a stale handle
expire(g, id) ==
    LET k == g.timers[id].cell
    IN [cells |-> [g.cells EXCEPT ![k].movement = Null,
                                  ![k].movementTimer = IF @ = id THEN Stale ELSE @],
        timers |-> CancelMovement(g.timers, id)]

\* the data moves: odds and previous odds are set, differ and parse
Moves(d) ==
    /\ d # NoData
    /\ d.odds \notin {Null, ""} /\ d.previous_odds \notin {Null, ""}
    /\ d.odds # d.previous_odds
    /\ ~parseInt(d.odds).nan /\ ~parseInt(d.previous_odds).nan

Alive == {k \in Cells : oddsCells[k].status = "alive"}

CommitGrid(g) ==
    /\ oddsCells' = g.cells
    /\ movementTimers' = g.timers
    /\ UNCHANGED <<clientVars, historyVars, storeVars, mounted, selections, lastSubscription,
                   connInfo, sportSelector, gameSelector, marketSelector, pending, requested,
                   lastSubscribed, dropped, view>>

\* the rows get a new row or sportsbook: a cell is created for it
CreateCell(k, d) ==
    /\ oddsCells[k].status = "none"
    /\ CommitGrid(createCell(Grid, k, d, now))
    /\ changedAt' = IF Moves(d) THEN [changedAt EXCEPT ![k] = now] ELSE changedAt
    /\ lastCall' = Call("createCell", k, NoMessage, 0)
    /\ UNCHANGED <<now, lateExpiry>>

\* the cells on screen whose outcome in the new rows differs from their data
Changed(data) == {k \in Alive : data[k] # oddsCells[k].data}

\* oddsData is set or updated: the grid renders the new rows, in which the
\* cells of Changed(data) have a new outcome and all others the one they had
Render(data) ==
    /\ Alive # {}
    /\ \A k \in Cells \ Alive : data[k] = NoData
    /\ CommitGrid(renderCells(Grid, Alive, data, now))
    /\ changedAt' = [k \in Cells |-> IF k \in Changed(data) /\ Moves(data[k]) THEN now
                                     ELSE changedAt[k]]
    /\ lastCall' = Call("render", Cardinality(Changed(data)), NoMessage, 0)
    /\ UNCHANGED <<now, lateExpiry>>

\* the rows lose a row or sportsbook: its cell is torn down
DestroyCell(k) ==
    /\ oddsCells[k].status = "alive"
    /\ CommitGrid(onDestroy(Grid, k))
    /\ lastCall' = Call("onDestroy", k, NoMessage, 0)
    /\ UNCHANGED <<now, changedAt, lateExpiry>>

\* the event loop runs a movement timeout that is due
MovementExpiry(id) ==
    /\ id \in DOMAIN movementTimers
    /\ movementTimers[id].due <= now
    /\ CommitGrid(expire(Grid, id))
    /\ lateExpiry' = IF oddsCells[movementTimers[id].cell].status = "destroyed"
                     THEN lateExpiry \cup {movementTimers[id].cell}
                     ELSE lateExpiry
    /\ lastCall' = Call("movementExpiry", id, NoMessage, 0)
    /\ UNCHANGED <<now, changedAt>>

\* 1000 ms pass; the timeouts that were due have run
Tick ==
    /\ now < MaxTime * TickMs
    /\ \A id \in DOMAIN movementTimers : movementTimers[id].due > now
    /\ now' = now + TickMs
    /\ lastCall' = Call("tick", 0, NoMessage, 0)
    /\ UNCHANGED <<clientVars, historyVars, storeVars, mounted, selections, lastSubscription,
                   connInfo, sportSelector, gameSelector, marketSelector, pending, requested,
                   lastSubscribed, dropped, view, oddsCells, movementTimers, changedAt, lateExpiry>>

NextCell ==
    \/ \E k \in Cells, d \in CellData : CreateCell(k, d)
    \/ \E data \in [Cells -> CellData] : Render(data)
    \/ \E k \in Cells : DestroyCell(k)
    \/ \E id \in MovementIds : MovementExpiry(id)
    \/ Tick

\* the cells of the grid under store updates, teardown and the clock
CellSpec == Init /\ [][NextCell]_vars

\* The connection lifecycle alone (the messages the page sends take no part
\* in it), with fair scheduling of the browser's timeout table: a pending
\* reconnect timeout is eventually run by the event loop.
NextLifecycle ==
    \/ Connect
    \/ Disconnect
    \/ \E t \in Transports : TransportOpen(t)
    \/ \E t \in Transports : TransportClosing(t)
    \/ \E t \in Transports : TransportClose(t)
    \/ \E k \in TimerIds : ReconnectTimerFire(k)

LiveSpec ==
    Init /\ [][NextLifecycle]_vars /\ WF_vars(\E k \in TimerIds : ReconnectTimerFire(k))

\* ------------------------------------------------------------------ claims
RECURSIVE Pow2(_)
Pow2(n) == IF n <= 0 THEN 1 ELSE 2 * Pow2(n - 1)
Backoff(n) == Min(1000 * Pow2(n - 1), 30000)

ActiveTransports == {t \in Transports : readyState[t] \in {"CONNECTING", "OPEN"}}

\* the step is the close event of a transport the client had not asked to close
UncleanCloseStep ==
    /\ lastCall'.op = "onclose"
    /\ lastCall'.t \notin closeRequested

\* C1: the reconnect timer scheduled by the Nth consecutive unclean close
\* (no successful open in between) has the delay min(1000 * 2^(N-1), 30000).
C1_BackoffSequence ==
    [][(UncleanCloseStep /\ lastCall'.delay # 0) =>
         lastCall'.delay = Backoff(failures')]_vars

\* C2: between a call of disconnect() and the owner's next call of connect()
\* no reconnect timer is pending, no heartbeat interval is armed and the
\* client holds no transport.
C2_NothingPendingAfterDisconnect ==
    closedByOwner => /\ timers = {}
                     /\ intervals = {}
                     /\ ws = 0

AllowedTransitions ==
    { <<"disconnected", "connecting">>, <<"connecting", "connected">>,
      <<"connecting", "disconnected">>, <<"connected", "disconnected">> }

\* C3: two consecutive states reported to the state-change handler are always
\* one of disconnected->connecting, connecting->connected,
\* connecting->disconnected, connected->disconnected.
C3_ReportedTransitions ==
    prevReported # "none" => <<prevReported, connState>> \in AllowedTransitions

StrandedOrWaiting == ws # 0 /\ readyState[ws] = "CLOSED" /\ ~intentionalClose

C5_OpenResetsBackoff ==
    [][(UncleanCloseStep /\ lastCall'.delay # 0 /\ everOpened /\ failures = 0) =>
         lastCall'.delay = 1000]_vars

\* C6: connect() called while the current transport is connecting or open
\* changes nothing, and at most one transport is connecting or open.
C6_ConnectWhileActiveIsNoOp ==
    /\ [](Cardinality(ActiveTransports) <= 1)
    /\ [][(lastCall'.op = "connect" /\ IsActive(World)) =>
            UNCHANGED <<clientVars, prevReported>>]_vars

C6_Witness ==
    /\ lastCall.op = "connect"
    /\ IsOpen(World)
    /\ pingInterval # 0

\* the current transport has had its open event and not yet its close event
\* (readyState CLOSING on the current transport: the peer is closing it)
CurrentTransportEstablished == ws # 0 /\ readyState[ws] \in {"OPEN", "CLOSING"}

\* C7: a heartbeat interval is armed exactly from the open event of the
\* current transport until its close event or disconnect(), and never more
\* than one.
C7_HeartbeatWhileOpen ==
    /\ Cardinality(intervals) <= 1
    /\ pingInterval # 0 <=> CurrentTransportEstablished
    /\ intervals # {} <=> CurrentTransportEstablished

SendCalls == {"subscribe", "unsubscribe", "heartbeat"}

\* C8: a subscribe, unsubscribe or ping issued while the transport is not
\* open changes nothing, and a message only ever reaches a transport in the
\* step of the send call that carries it, made while that transport is open.
C8_SendWhileNotOpenIsDropped ==
    /\ [][(lastCall'.op \in SendCalls /\ ~IsOpen(World)) =>
            UNCHANGED <<clientVars, prevReported>>]_vars
    /\ [][(wire' # wire /\ wire' # <<>>) =>
            /\ lastCall'.op \in SendCalls
            /\ IsOpen(World)
            /\ ws' = ws
            /\ wire' = Append(wire, lastCall'.msg)]_vars

C8_Witness ==
    /\ lastCall.op = "subscribe"
    /\ ~IsOpen(World)
    /\ everOpened
    /\ wire = <<>>

\* the outcome set of sportsbook b in a snapshot: its <<key, OutcomeData>>
\* entries, none when the sportsbook is absent
BookOutcomes(data, h, b) ==
    IF ObjHas(data.odds, b) THEN ObjEntries(h[ObjGet(data.odds, b)]) ELSE {}

\* the entries of an update's outcome object whose odds is not null
LiveOutcomes(outcomes) == {e \in ObjEntries(outcomes) : e[2].odds # Null}

UpdateStep == lastCall'.op = "applyUpdate"

\* C9 as stated: after applyUpdate(u), every sportsbook b of u.odds has
\* exactly the outcomes of u.odds[b] with non-null odds, and is absent when
\* there are none.
C9_FullReplacementPerSportsbook ==
    [][UpdateStep =>
         \A b \in ObjKeys(lastMessage'.odds) :
            LET live == LiveOutcomes(ObjGet(lastMessage'.odds, b))
            IN /\ BookOutcomes(oddsData', heap', b) = live
               /\ ObjHas(oddsData'.odds, b) <=> live # {}]_vars

\* C9 as amended: after applyUpdate(u), every sportsbook b of u.odds has the
\* outcomes of u.odds[b] with non-null odds together with the outcomes it had
\* before under keys that u.odds[b] does not mention, and is absent when
\* there are none.
C9_MergePerOutcomeKey ==
    [][UpdateStep =>
         \A b \in ObjKeys(lastMessage'.odds) :
            LET given == ObjGet(lastMessage'.odds, b)
                kept == {e \in BookOutcomes(oddsData, heap, b) : e[1] \notin ObjKeys(given)}
            IN /\ BookOutcomes(oddsData', heap', b) = LiveOutcomes(given) \cup kept
               /\ ObjHas(oddsData'.odds, b) <=> (LiveOutcomes(given) \cup kept) # {}]_vars

C9_Witness ==
    /\ lastCall.op = "applyUpdate"
    /\ \E b \in ObjKeys(lastMessage.odds) :
          LET given == ObjGet(lastMessage.odds, b)
          IN /\ LiveOutcomes(given) # {}
             /\ \E e \in BookOutcomes(oddsData, heap, b) : e[1] \notin ObjKeys(given)

\* C10: applyUpdate(u) leaves every sportsbook that u.odds does not mention
\* as it was (present or absent, same keys, same OutcomeData), and leaves
\* sport, gameId, homeTeam, awayTeam, gameDescription, market and loading as
\* they were.
C10_UpdateLeavesTheRestAlone ==
    [][UpdateStep =>
         /\ \A b \in (ObjKeys(oddsData.odds) \cup ObjKeys(oddsData'.odds))
                        \ ObjKeys(lastMessage'.odds) :
               /\ ObjHas(oddsData.odds, b) /\ ObjHas(oddsData'.odds, b)
               /\ heap'[ObjGet(oddsData'.odds, b)] = heap[ObjGet(oddsData.odds, b)]
         /\ [oddsData' EXCEPT !.odds = <<>>] = [oddsData EXCEPT !.odds = <<>>]]_vars

C10_Witness ==
    /\ lastCall.op = "applyUpdate"
    /\ \E b \in ObjKeys(lastMessage.odds) : LiveOutcomes(ObjGet(lastMessage.odds, b)) # {}
    /\ ObjKeys(oddsData.odds) \ ObjKeys(lastMessage.odds) # {}
    /\ oddsData.gameId # lastMessage.game_id
    /\ oddsData.market # lastMessage.market

\* the outcome keys an update's outcome object gives with odds = null
NullKeys(outcomes) == {e[1] : e \in {x \in ObjEntries(outcomes) : x[2].odds = Null}}

\* C11: after applyUpdate(u), no sportsbook of u.odds has an outcome under a
\* key that u gives with null odds, and no sportsbook of u.odds is present
\* with an empty outcome set.
C11_NullRemovesOutcomeAndEmptyBook ==
    [][UpdateStep =>
         \A b \in ObjKeys(lastMessage'.odds) :
            /\ \A e \in BookOutcomes(oddsData', heap', b) :
                  e[1] \notin NullKeys(ObjGet(lastMessage'.odds, b))
            /\ ObjHas(oddsData'.odds, b) => heap'[ObjGet(oddsData'.odds, b)] # <<>>]_vars

\* the update removed the last outcome of a sportsbook while another
\* sportsbook stayed
C11_Witness ==
    /\ lastCall.op = "applyUpdate"
    /\ oddsData.odds # <<>>
    /\ \E b \in ObjKeys(lastMessage.odds) :
          /\ NullKeys(ObjGet(lastMessage.odds, b)) # {}
          /\ ~ObjHas(oddsData.odds, b)
          /\ \E r \in DOMAIN heap \ Refs(oddsData.odds) : heap[r] = <<>>

SnapshotStep == lastCall'.op = "applySnapshot"

\* C12: after applySnapshot(m) the snapshot has m's sport, game_id,
\* home_team, away_team, game_description, market and odds, and loading is
\* false, whatever the snapshot was before.
C12_SnapshotReplacesEverything ==
    [][SnapshotStep =>
         /\ oddsData'.sport = lastMessage'.sport
         /\ oddsData'.gameId = lastMessage'.game_id
         /\ oddsData'.homeTeam = lastMessage'.home_team
         /\ oddsData'.awayTeam = lastMessage'.away_team
         /\ oddsData'.gameDescription = lastMessage'.game_description
         /\ oddsData'.market = lastMessage'.market
         /\ Deref(oddsData'.odds, heap') = lastMessage'.odds
         /\ oddsData'.loading = FALSE]_vars

\* a snapshot without odds was applied over a snapshot that held outcomes
C12_Witness ==
    /\ lastCall.op = "applySnapshot"
    /\ lastMessage.odds = <<>>
    /\ \E r \in DOMAIN heap : heap[r] # <<>>

\* an OddsSnapshot by value: its odds as sportsbook -> outcome object
Value(data, h) == [data EXCEPT !.odds = Deref(data.odds, h)]

\* C13: applySnapshot called again with a message object yields the
\* OddsSnapshot its first application yielded (the fields of the message as
\* it was received, loading false), whatever store operations came between.
C13_SnapshotIdempotent ==
    [][lastCall'.op = "applySnapshotAgain" =>
         Value(oddsData', heap') =
            [sport |-> held.sent.sport, gameId |-> held.sent.game_id,
             homeTeam |-> held.sent.home_team, awayTeam |-> held.sent.away_team,
             gameDescription |-> held.sent.game_description,
             market |-> held.sent.market, odds |-> held.sent.odds,
             loading |-> FALSE]]_vars

\* the step is one of the four store operations
StoreStep == lastCall'.op \in {"applySnapshot", "applyUpdate", "clearOdds", "setLoading"}

\* C14: the OddsSnapshot value published before a store operation is the
\* same value after it, and an update is published with all of its
\* sportsbooks applied.
C14_PublishedSnapshotsNeverChange ==
    /\ [][StoreStep => Value(oddsData, heap') = Value(oddsData, heap)]_vars
    /\ [][UpdateStep =>
            \A b \in ObjKeys(lastMessage'.odds) :
               /\ LiveOutcomes(ObjGet(lastMessage'.odds, b))
                     \subseteq BookOutcomes(oddsData', heap', b)
               /\ \A e \in BookOutcomes(oddsData', heap', b) :
                     e[1] \notin NullKeys(ObjGet(lastMessage'.odds, b))]_vars

\* a non-null market implies a non-null game, a non-null game a non-null sport
SelectionNested ==
    /\ (selections.market # Null) => (selections.game # NoGame)
    /\ (selections.game # NoGame) => (selections.sport # Null)

\* what a step of selectSport, selectGame or selectMarket does to the selections
CascadeStep ==
    /\ (lastCall'.op = "selectSport") =>
          (/\ selections'.sport # Null
           /\ selections'.game = NoGame
           /\ selections'.market = Null)
    /\ (lastCall'.op = "selectGame") =>
          (/\ selections'.game # NoGame
           /\ selections'.market = Null
           /\ selections'.sport = selections.sport)
    /\ (lastCall'.op = "selectMarket") =>
          (/\ selections'.market # Null
           /\ selections'.sport = selections.sport
           /\ selections'.game = selections.game)

\* C18: selecting a sport sets game and market to null; selecting a game sets
\* market to null and leaves sport unchanged; selecting a market leaves sport
\* and game unchanged; and in every state a non-null market implies a
\* non-null game and a non-null game implies a non-null sport.
C18_SelectionCascade == []SelectionNested /\ [][CascadeStep]_vars

\* a game has just been selected, a market list of an earlier game still being there
C18_Witness ==
    /\ lastCall.op = "selectGame"
    /\ selections.sport # Null
    /\ selections.game # NoGame
    /\ selections.market = Null
    /\ marketSelector.markets # <<>>

\* C19: in every state a selected game belongs to the selected sport, and a
\* selected market is one listed for the selected game, however the
\* selections interleave with the list-games and list-markets responses.
C19_SelectionNeverStale ==
    /\ selections.game # NoGame => selections.game.sport = selections.sport
    /\ selections.market # Null =>
          selections.market \in Range(fetchMarkets(selections.game.sport,
                                                    selections.game.game_id))

\* the step is the message event of a payload of the given type
ReceiveStep(type) == lastCall'.op = "onmessage" /\ lastMessage'.type = type

\* C15: when a subscribe message for a tuple other than the previously
\* subscribed one is sent, the odds mapping of the snapshot is empty and
\* loading is true.
C15_ClearedBeforeSubscribe ==
    [][lastSubscribed' # lastSubscribed =>
         (oddsData'.odds = <<>> /\ oddsData'.loading)]_vars

\* a market click has sent a subscribe for another tuple, the snapshot of the
\* earlier tuple having been emptied by setLoading
C15_Witness ==
    /\ lastCall.op = "selectMarket"
    /\ SubscribesIn(wire) # <<>>
    /\ oddsData.sport # ""
    /\ oddsData.market # selections.market
    /\ oddsData.odds = <<>>
    /\ oddsData.loading

\* an update message arrives that is not of the selected tuple
ForeignUpdateStep ==
    /\ ReceiveStep("update")
    /\ ~Complete(selections) \/ TupleOf(lastMessage') # SelectedTuple(selections)

\* C16: while the selection is incomplete the odds mapping is empty, and an
\* update message of a tuple other than the selected one puts no outcomes
\* into the snapshot.
C16_OnlySelectedTupleInSnapshot ==
    /\ [](~Complete(selections) => oddsData.odds = <<>>)
    /\ [][ForeignUpdateStep => Value(oddsData', heap') = Value(oddsData, heap)]_vars

\* C17: when a transport opens while the selection is complete (a
\* subscription having been active before the connection was lost or not),
\* the open step reports 'connected' and sends a subscribe message for the
\* selected tuple, no feed message being applied before it.
C17_ResubscribeOnReconnect ==
    [][(lastCall'.op = "onopen" /\ Complete(selections)) =>
         /\ connState' = "connected"
         /\ SubscribeMessage(selections.sport, selections.game.game_id, selections.market)
               \in Range(wire')
         /\ requested' = {SelectedTuple(selections)}
         /\ ops' = ops]_vars

\* a transport has opened after feed messages of an earlier connection were
\* applied, and the subscribe of the selected tuple is on it
C17_Witness ==
    /\ lastCall.op = "onopen"
    /\ ops > 0
    /\ oddsData.odds # <<>>
    /\ Complete(selections)
    /\ lastSubscription = subKey(selections)
    /\ SubscribesIn(wire) # <<>>

\* C20: a payload that cannot be decoded changes neither the snapshot nor
\* the ConnectionInfo nor anything of the client (transport open, heartbeat,
\* backoff and timers as before), nothing is sent, and a snapshot message
\* arriving later on the transport is applied.
C20_UndecodablePayloadDropped ==
    [][/\ ReceiveStep("undecodable") =>
            /\ Value(oddsData', heap') = Value(oddsData, heap)
            /\ connInfo' = connInfo
            /\ connState' = connState
            /\ ws' = ws /\ readyState' = readyState
            /\ readyState'[lastCall'.t] = "OPEN"
            /\ pingInterval' = pingInterval /\ intervals' = intervals
            /\ reconnectDelay' = reconnectDelay
            /\ reconnectTimer' = reconnectTimer /\ timers' = timers
            /\ intentionalClose' = intentionalClose
            /\ wire' = <<>>
            /\ selections' = selections /\ lastSubscription' = lastSubscription
       /\ (dropped /\ ReceiveStep("snapshot")) =>
            /\ oddsData'.gameId = lastMessage'.game_id
            /\ oddsData'.market = lastMessage'.market
            /\ Deref(oddsData'.odds, heap') = lastMessage'.odds
            /\ ~oddsData'.loading]_vars

\* a snapshot has been applied on a transport on which an undecodable
\* payload had arrived before
C20_Witness ==
    /\ dropped
    /\ lastCall.op = "onmessage"
    /\ lastMessage.type = "snapshot"
    /\ oddsData.odds # <<>>

KnownTypes == {"connected", "snapshot", "update", "pong", "status", "error"}

\* the message is of a known type and has the members of that type
WellFormed(message) ==
    /\ message.type \in KnownTypes
    /\ message.type = "pong" => message.server_time # Undefined

\* C21: a decoded message that is not of a known type with that type's
\* shape is not passed to the message handler and leaves the odds snapshot
\* and the ConnectionInfo unchanged.
C21_OnlyWellFormedDispatched ==
    [][(lastCall'.op = "onmessage" /\ lastMessage' # Undecodable /\ ~WellFormed(lastMessage')) =>
         /\ Value(oddsData', heap') = Value(oddsData, heap)
         /\ connInfo' = connInfo
         /\ connState' = connState]_vars

\* C22: handling a server 'error' message leaves the connection state, the
\* transport, the timers, the heartbeat, the backoff and the outcome data of
\* the snapshot unchanged, and sends nothing.
C22_ErrorMessageNonFatal ==
    [][ReceiveStep("error") =>
         /\ connState' = connState
         /\ ws' = ws /\ readyState' = readyState
         /\ readyState'[lastCall'.t] = "OPEN"
         /\ timers' = timers /\ reconnectTimer' = reconnectTimer
         /\ pingInterval' = pingInterval /\ intervals' = intervals
         /\ reconnectDelay' = reconnectDelay
         /\ intentionalClose' = intentionalClose
         /\ wire' = <<>>
         /\ Value(oddsData', heap') = Value(oddsData, heap)]_vars

\* an error message has been handled while the snapshot held outcome data
C22_Witness ==
    /\ lastCall.op = "onmessage"
    /\ lastMessage = ErrorMessage
    /\ connState = "connected"
    /\ oddsData.odds # <<>>

LifecycleOps == {"mount", "onopen", "onclose", "reconnectTimer", "closing"}

\* C23: a status message changes only upstreamConnected, gamesTracked and
\* sportsbooksActive; a pong message changes only lastPong; a lifecycle
\* transition changes only state; snapshot, update, connected and error
\* messages change no field of the ConnectionInfo.
C23_ConnectionInfoFrame ==
    [][/\ ReceiveStep("status") =>
            (connInfo'.lastPong = connInfo.lastPong /\ connState' = connState)
       /\ ReceiveStep("pong") =>
            (connInfo' = [connInfo EXCEPT !.lastPong = connInfo'.lastPong]
               /\ connState' = connState)
       /\ lastCall'.op \in LifecycleOps => connInfo' = connInfo
       /\ (lastCall'.op = "onmessage"
             /\ lastMessage'.type \in {"snapshot", "update", "connected", "error"}) =>
            (connInfo' = connInfo /\ connState' = connState)]_vars

\* a status message has been handled after a pong had set lastPong
C23_Witness ==
    /\ lastCall.op = "onmessage"
    /\ lastMessage = StatusMessage
    /\ connInfo.lastPong = PongMessage.server_time
    /\ connInfo.upstreamConnected

Abs(n) == IF n < 0 THEN 0 - n ELSE n
LineTenths(row) == LineOf(row).n

\* C24: two rows named "spread" whose lines have the same absolute value are
\* at adjacent positions of the sorted rows, whatever other rows there are.
C24_SpreadSidesAdjacent ==
    \A i, j \in DOMAIN view.rows :
        (/\ i # j
         /\ view.rows[i].outcomeName = "spread"
         /\ view.rows[j].outcomeName = "spread"
         /\ Abs(LineTenths(view.rows[i])) = Abs(LineTenths(view.rows[j])))
        => Abs(i - j) = 1

\* the cells of a row whose odds are non-null and numeric
Priced(row) ==
    {c \in ObjEntries(row.cells) : Truthy(c[2].odds) /\ ~parseInt(c[2].odds).nan}

\* C25: the bestBook of a row is a sportsbook of its cells whose integer odds
\* are greater than or equal to those of every cell with non-null numeric
\* odds, and it is null exactly when the row has no such cell.
C25_BestBookIsGreatest ==
    \A i \in DOMAIN view.rows :
        LET row == view.rows[i]
        IN /\ (row.bestBook = Null) <=> (Priced(row) = {})
           /\ row.bestBook # Null =>
                 \E b \in Priced(row) :
                    /\ b[1] = row.bestBook
                    /\ \A c \in Priced(row) : parseInt(b[2].odds).n >= parseInt(c[2].odds).n

\* a row priced +120, +150 and null by three sportsbooks has the second as bestBook
C25_Witness ==
    /\ Len(view.odds) = 3
    /\ view.odds[1][2][1][2].odds = "+120"
    /\ view.odds[2][2][1][2].odds = "+150"
    /\ view.odds[3][2][1][2].odds = Null
    /\ Len(view.rows) = 1
    /\ view.rows[1].bestBook = view.odds[2][1]

\* the orders in which the entries of an object can have been inserted
Orders(object) ==
    {[i \in DOMAIN object |-> object[p[i]]] :
        p \in {f \in [DOMAIN object -> DOMAIN object] :
                 \A i, j \in DOMAIN object : i # j => f[i] # f[j]}}

\* the snapshots with the mapping of odds, sportsbooks and outcome keys
\* inserted in any order
Reorderings(odds) ==
    UNION {{[i \in DOMAIN books |-> <<books[i][1], inner[i]>>] :
              inner \in {f \in [DOMAIN books -> UNION {Orders(books[k][2]) : k \in DOMAIN books}] :
                           \A k \in DOMAIN books : f[k] \in Orders(books[k][2])}} :
           books \in Orders(odds)}

\* what the grid shows of the rows: their order, labels, fields, cells and bestBook
Shown(rows) ==
    [i \in DOMAIN rows |->
        [label |-> rows[i].label, outcomeName |-> rows[i].outcomeName,
         outcomeLine |-> rows[i].outcomeLine, overUnder |-> rows[i].overUnder,
         target |-> rows[i].target, cells |-> ObjEntries(rows[i].cells),
         bestBook |-> rows[i].bestBook]]

\* C26: snapshots with the same sportsbook -> outcome key -> OutcomeData
\* mapping yield the same rows in the same order with the same labels and
\* bestBook, in whatever order the sportsbooks and outcome keys were inserted.
C26_RowsIndependentOfInsertionOrder ==
    \A other \in Reorderings(view.odds) : Shown(oddsRows(other)) = Shown(view.rows)

\* the pairing group of a row: spreads by the absolute value of the line,
\* totals by the line, everything else by the name
PairGroup(row) ==
    IF row.outcomeName = "spread" THEN <<"spread", Abs(LineTenths(row)), "">>
    ELSE IF row.outcomeName = "total" THEN <<"total", LineTenths(row), "">>
    ELSE <<"other", 0, row.outcomeName>>

OverUnderPair(a, b) ==
    \/ a.overUnder = "O" /\ b.overUnder = "U"
    \/ a.overUnder = "U" /\ b.overUnder = "O"

\* C27: of two rows of one group the one with the smaller line comes first;
\* with equal lines an Over row comes before an Under row; remaining ties
\* are in the order of the labels.
C27_OrderWithinGroup ==
    \A i, j \in DOMAIN view.rows :
        (i < j /\ PairGroup(view.rows[i]) = PairGroup(view.rows[j])) =>
           LET a == view.rows[i]
               b == view.rows[j]
           IN /\ LineTenths(a) <= LineTenths(b)
              /\ LineTenths(a) = LineTenths(b) => ~(a.overUnder = "U" /\ b.overUnder = "O")
              /\ (LineTenths(a) = LineTenths(b) /\ ~OverUnderPair(a, b)) =>
                    LabelRank(a.label) <= LabelRank(b.label)

\* the snapshot lists Under 5.5 before Over 5.5 and BOS 3.5 before LAL -3.5;
\* the rows have them the other way round
C27_Witness ==
    /\ Len(view.odds) = 1
    /\ Len(view.rows) = 4
    /\ view.odds[1][2][1][1] = "t2" /\ view.odds[1][2][2][1] = "t1"
    /\ view.odds[1][2][3][1] = "s2" /\ view.odds[1][2][4][1] = "s1"
    /\ view.rows[1].label = "LAL -3.5" /\ view.rows[2].label = "BOS 3.5"
    /\ view.rows[3].label = "Over 5.5" /\ view.rows[4].label = "Under 5.5"

\* $oddsRows as the grid reads it: the derived store recomputes from the
\* value of oddsData at every set and update
gridRows == oddsRows(Deref(oddsData.odds, heap))

\* the outcome keys present in any sportsbook of the snapshot
KeysPresent(odds) == UNION {ObjKeys(odds[i][2]) : i \in DOMAIN odds}

\* the sportsbooks whose outcome at key has non-null odds
BooksPricing(odds, key) ==
    {odds[i][1] : i \in {j \in DOMAIN odds :
                           ObjHas(odds[j][2], key) /\ ObjGet(odds[j][2], key).odds # Null}}

\* row is the row of key: the feed's outcome keys differ in their side
RowOfKey(row, key) == row.overUnder = OutcomeData(key, Null).outcome_over_under

PendingFor(k) == {id \in DOMAIN movementTimers : movementTimers[id].cell = k}

\* the last step gave cell k changed data that move
ChangeStep(k) ==
    /\ lastCall'.op \in {"createCell", "render"}
    /\ oddsCells'[k].status = "alive"
    /\ oddsCells[k].status = "none" \/ oddsCells'[k].data # oddsCells[k].data
    /\ Moves(oddsCells'[k].data)

\* such a step flags the cell up or down
FlagStep ==
    \A k \in Cells :
        ChangeStep(k) =>
           LET d == oddsCells'[k].data
           IN /\ parseInt(d.odds).n > parseInt(d.previous_odds).n => oddsCells'[k].movement = "up"
              /\ parseInt(d.odds).n < parseInt(d.previous_odds).n => oddsCells'[k].movement = "down"

\* until 3000 ms after its last change a cell keeps its flag, with one
\* timeout pending that is due 3000 ms after that change
HeldUntilExpiry ==
    \A k \in Cells :
        (oddsCells[k].status = "alive" /\ changedAt[k] >= 0 /\ now < changedAt[k] + MovementMs) =>
           /\ oddsCells[k].movement \in {"up", "down"}
           /\ \A id \in PendingFor(k) : movementTimers[id].due = changedAt[k] + MovementMs
           /\ PendingFor(k) # {}

\* once more than 3000 ms have passed since its last change a cell has no flag
ClearedAfterExpiry ==
    \A k \in Cells :
        (oddsCells[k].status = "alive" /\ changedAt[k] >= 0 /\ now > changedAt[k] + MovementMs) =>
           oddsCells[k].movement = Null

\* C29: a cell whose odds differ from its previous odds, both integers, is
\* flagged up if the odds rose and down if they fell; the flag stays until
\* 3000 ms after the last such change and is cleared then; a change that
\* arrives before the expiry restarts the full 3000 ms from its arrival.
C29_MovementExpiry == [](HeldUntilExpiry /\ ClearedAfterExpiry) /\ [][FlagStep]_vars

\* a cell that has been torn down is not written any more
DestroyedFrozen ==
    \A k \in Cells : oddsCells[k].status = "destroyed" => oddsCells'[k] = oddsCells[k]

OneTimerPerCell ==
    /\ \A k \in Cells : Cardinality(PendingFor(k)) <= 1
    /\ \A k \in Cells : oddsCells[k].status = "destroyed" => PendingFor(k) = {}
    /\ lateExpiry = {}

\* C30: a cell has at most one movement timeout pending; a cell that has
\* been torn down has none, no movement timeout runs for it and its movement
\* flag is not written.
C30_OneTimerCancelledOnTeardown == []OneTimerPerCell /\ [][DestroyedFrozen]_vars

\* a cell torn down while flagged, its timeout armed, and the time the
\* timeout was due has passed
C30_Witness ==
    \E k \in Cells :
        /\ oddsCells[k].status = "destroyed"
        /\ oddsCells[k].movement = "down"
        /\ oddsCells[k].movementTimer \notin {0, Stale}
        /\ now > changedAt[k] + MovementMs

\* a member of an outcome is present: neither null nor empty
Present(v) == v \notin {Null, ""}

QuietStep ==
    /\ lastCall'.op \in {"onmessage", "fetchSports", "fetchGames", "fetchMarkets"}
    /\ connState = "connected" /\ connState' = "connected" /\ ws' = ws
    /\ Complete(selections) /\ selections' = selections
    /\ lastSubscription = subKey(selections)

\* a step in which the page runs its reactive blocks
PageStep ==
    lastCall'.op \in {"onmessage", "fetchSports", "fetchGames", "fetchMarkets", "selectSport",
                      "selectGame", "selectMarket", "onopen"}

\* C32: while the connection stays connected and the selected tuple is
\* unchanged one subscribe message is sent for it: no step sends two, and
\* processing a pong, a status or any other message or response that
\* changes neither the selection nor the connection state sends none.
C32_NoDuplicateSubscribe ==
    [][/\ QuietStep => SubscribesIn(wire') = <<>>
       /\ PageStep => Len(SubscribesIn(wire')) <= 1]_vars

\* loading is set and the last step received the backend's answer to the
\* subscribe: a snapshot or an error
AnsweredWhileLoading ==
    /\ oddsData.loading
    /\ lastCall.op = "onmessage"
    /\ lastMessage.type \in {"snapshot", "error"}

\* C33: loading does not stay set: once setLoading() has run for a subscribe
\* and the backend has answered it with a snapshot or an error, loading
\* eventually becomes false.
C33_LoadingEventuallyCleared == AnsweredWhileLoading ~> ~oddsData.loading

\* the times at which the movement timeouts pending for cell k are due
DuesFor(table, k) == {table[id].due : id \in {i \in DOMAIN table : table[i].cell = k}}

\* the grid renders new rows in which cell k has the outcome it had
UnchangedRender(k) ==
    /\ lastCall'.op = "render"
    /\ oddsCells[k].status = "alive"
    /\ oddsCells'[k].data = oddsCells[k].data

\* C34: a store mutation that leaves the odds and the previous odds of a
\* cell unchanged leaves its movement flag and its pending timeout alone:
\* the timeout is not restarted and a flag that has cleared is not raised.
C34_OnlyOwnOddsMoveCell ==
    [][\A k \in Cells :
          UnchangedRender(k) =>
             /\ oddsCells'[k].movement = oddsCells[k].movement
             /\ DuesFor(movementTimers', k) = DuesFor(movementTimers, k)]_vars
====
